---- MODULE Spec2Model ----
(***************************************************************************)
(* Model of the Aegis classification-aware access control engine:          *)
(*   aegis_common_schema/base.py               (classification lattice)    *)
(*   aegis_common_schema/policy_obligations.py (policy, redaction engine)  *)
(*   aegis_common_schema/access_control_engine.py (decision point)         *)
(*                                                                         *)
(* Python values are encoded as follows.  Enum members are named by their  *)
(* member name (a string); their .value is given by a table.  A str is a   *)
(* TLA+ string, a typed list is a sequence, an Optional[...] enum or str   *)
(* field holds None ("None") when unset.  Dynamically typed values (the    *)
(* payload tree, the need-to-know attributes) are tagged records           *)
(* [t |-> type, v |-> value].                                              *)
(***************************************************************************)
EXTENDS Integers, Sequences, FiniteSets, TLC

VARIABLES
    policy,     \* AccessControlEngine.policy (shared with its RedactionEngine)
    payload,    \* the caller's payload object (PyNone when the call takes none)
    op,         \* name of the operation called
    args,       \* arguments of the call
    pc,         \* "call": arguments bound, body not run; "done": returned
    ret,        \* value returned by the call (None before it returns)
    frame       \* local variables of the calls in progress (None when unused)

vars == <<policy, payload, op, args, pc, ret, frame>>

-----------------------------------------------------------------------------
(* Bounds of the explored inputs *)

\* longest compartment list of the user or the resource in the decision runs
MaxComps == 1

\* longest compartment list of the user or the resource in the compartment runs
MaxCompList == 2

\* most field redaction rules in a policy
MaxRules == 2

\* longest compartment list of a rule or a subject in the should_redact runs
MaxRuleComps == 2

\* longest list of entities aggregate is called on
MaxEntities == 3

\* most related alerts of a payload evaluate_and_render is called on
MaxAlerts == 2

-----------------------------------------------------------------------------
(* Python helpers *)

\* the absent value of a slot typed Optional[<Enum>] or Optional[UUID], written
\* beside the member names and the ids; such a slot admits no str.  A slot
\* typed Optional[str] holds PyNone or PyStr(s).
None == "None"

\* None as a dynamically typed value
PyNone == [t |-> "NoneType"]

PyDict(f) == [t |-> "dict", v |-> f]

PyList(s) == [t |-> "list", v |-> s]

PyStr(s) == [t |-> "str", v |-> s]

PySet(S) == [t |-> "set", v |-> S]

\* bool(x) of a dynamically typed value
Truthy(x) ==
    CASE x.t = "NoneType" -> FALSE
      [] x.t = "dict" -> DOMAIN x.v # {}
      [] x.t = "list" -> Len(x.v) > 0
      [] x.t = "str" -> Len(x.v) > 0
      [] x.t = "set" -> x.v # {}
      [] x.t \in {"ClassificationLevel", "Compartment"} -> TRUE

\* set(xs) of a list
ToSet(xs) == {xs[i] : i \in DOMAIN xs}

\* the printable ASCII characters in code point order: " " (32) to "_" (95),
\* and "a" (97) to "~" (126)
AsciiLow == " !\"#$%&'()*+,-./0123456789:;<=>?@ABCDEFGHIJKLMNOPQRSTUVWXYZ[\\]^_"

AsciiHigh == "abcdefghijklmnopqrstuvwxyz{|}~"

\* ord(ch) of a one-character string
Ord(ch) ==
    IF \E i \in 1..Len(AsciiLow) : SubSeq(AsciiLow, i, i) = ch
    THEN 31 + (CHOOSE i \in 1..Len(AsciiLow) : SubSeq(AsciiLow, i, i) = ch)
    ELSE 96 + (CHOOSE i \in 1..Len(AsciiHigh) : SubSeq(AsciiHigh, i, i) = ch)

\* a < b on str: comparison by code points, a proper prefix being smaller
RECURSIVE StrLess(_, _)
StrLess(a, b) ==
    IF Len(b) = 0 THEN FALSE
    ELSE IF Len(a) = 0 THEN TRUE
    ELSE LET x == Ord(SubSeq(a, 1, 1))
             y == Ord(SubSeq(b, 1, 1))
         IN  IF x # y THEN x < y
             ELSE StrLess(SubSeq(a, 2, Len(a)), SubSeq(b, 2, Len(b)))

\* sorted(S, key=lambda x: key[x]) of a set whose keys are pairwise different
RECURSIVE SortedBy(_, _)
SortedBy(S, key) ==
    IF S = {} THEN <<>>
    ELSE LET m == CHOOSE x \in S : \A y \in S \ {x} : StrLess(key[x], key[y])
         IN  <<m>> \o SortedBy(S \ {m}, key)

\* sep.join(xs)
RECURSIVE Join(_, _)
Join(sep, xs) ==
    IF Len(xs) = 0 THEN ""
    ELSE IF Len(xs) = 1 THEN xs[1]
    ELSE xs[1] \o sep \o Join(sep, Tail(xs))

\* s.split(sep) for a one-character separator
RECURSIVE Split(_, _)
Split(s, sep) ==
    IF \E i \in 1..Len(s) : SubSeq(s, i, i) = sep
    THEN LET i == CHOOSE i \in 1..Len(s) :
                      /\ SubSeq(s, i, i) = sep
                      /\ \A j \in 1..(i - 1) : SubSeq(s, j, j) # sep
         IN  <<SubSeq(s, 1, i - 1)>> \o Split(SubSeq(s, i + 1, Len(s)), sep)
    ELSE <<s>>

\* s.endswith(p)
EndsWith(s, p) == Len(s) >= Len(p) /\ SubSeq(s, Len(s) - Len(p) + 1, Len(s)) = p

\* [f[x] for x in xs]
MapSeq(f, xs) == [i \in 1..Len(xs) |-> f[xs[i]]]

\* a ClassificationLevel member as a dynamically typed value
PyLevel(member) == [t |-> "ClassificationLevel", v |-> member]

\* a Compartment member as a dynamically typed value
PyCompartment(member) == [t |-> "Compartment", v |-> member]

\* sub in s, of two str
StrIn(sub, s) ==
    \E i \in 1..(Len(s) - Len(sub) + 1) : SubSeq(s, i, i + Len(sub) - 1) = sub

\* sorted(xs) of a list of str
RECURSIVE Sorted(_)
Sorted(xs) ==
    IF Len(xs) = 0 THEN <<>>
    ELSE LET i == CHOOSE i \in 1..Len(xs) :
                      /\ \A j \in 1..Len(xs) : ~StrLess(xs[j], xs[i])
                      /\ \A j \in 1..(i - 1) : xs[j] # xs[i]
         IN  <<xs[i]>> \o Sorted(SubSeq(xs, 1, i - 1) \o SubSeq(xs, i + 1, Len(xs)))

\* json.dumps(xs, separators=(",", ":")) of a list of str free of characters
\* that JSON escapes
JsonStrList(xs) ==
    LET Quoted == [i \in 1..Len(xs) |-> "\"" \o xs[i] \o "\""]
    IN  "[" \o Join(",", Quoted) \o "]"

\* hmac.new(key, msg, hashlib.sha256).hexdigest(): the digest is kept as the
\* pair it is computed from, different pairs giving different digests
hmac_sha256_hexdigest(key, msg) == "hmac-sha256(" \o key \o ")(" \o msg \o ")"

-----------------------------------------------------------------------------
(* base.py: enumerations *)

ClassificationLevel ==
    {"UNCLASSIFIED", "CUI", "CONFIDENTIAL", "SECRET", "TOP_SECRET", "TS_SCI"}

\* ClassificationLevel.<member>.value
LevelValue ==
    [UNCLASSIFIED |-> "U", CUI |-> "CUI", CONFIDENTIAL |-> "C",
     SECRET |-> "S", TOP_SECRET |-> "TS", TS_SCI |-> "TS//SCI"]

\* numeric_value with the ranks of CUI and CONFIDENTIAL exchanged
numeric_value_swapped(level) ==
    LET mapping == ("U" :> 0) @@ ("CUI" :> 2) @@ ("C" :> 1) @@ ("S" :> 3)
                   @@ ("TS" :> 4) @@ ("TS//SCI" :> 5)
    IN  mapping[LevelValue[level]]

\* ClassificationLevel.numeric_value
numeric_value(level) ==
    LET mapping == ("U" :> 0) @@ ("CUI" :> 1) @@ ("C" :> 2) @@ ("S" :> 3)
                   @@ ("TS" :> 4) @@ ("TS//SCI" :> 5)
    IN  mapping[LevelValue[level]]

Compartment ==
    {"NOFORN", "NOCONTRACT", "HUMINT", "SIGINT", "IMINT", "TALENT_KEYHOLE", "RUFF"}

\* Compartment.<member>.value
CompartmentValue ==
    [NOFORN |-> "NOFORN", NOCONTRACT |-> "NOCONTRACT", HUMINT |-> "HUMINT",
     SIGINT |-> "SIGINT", IMINT |-> "IMINT", TALENT_KEYHOLE |-> "TK",
     RUFF |-> "RUFF"]

\* ClassificationLevel(value): the member with that value
ClassificationLevelOf(value) == CHOOSE l \in ClassificationLevel : LevelValue[l] = value

\* Compartment(value): the member with that value
CompartmentOf(value) == CHOOSE c \in Compartment : CompartmentValue[c] = value

\* isinstance(x, str) of a dynamically typed value: a str, or a member of one
\* of the str-Enums ClassificationLevel and Compartment
IsStr(x) == x.t \in {"str", "ClassificationLevel", "Compartment"}

\* the characters of a value that is an instance of str
StrOf(x) ==
    CASE x.t = "str" -> x.v
      [] x.t = "ClassificationLevel" -> LevelValue[x.v]
      [] x.t = "Compartment" -> CompartmentValue[x.v]

\* the values an iteration over x yields (for y in x): the elements of a list
\* or a set, the keys of a dict, the characters of a str
PyIter(x) ==
    CASE x.t = "list" -> {x.v[i] : i \in 1..Len(x.v)}
      [] x.t = "set" -> x.v
      [] x.t = "dict" -> {PyStr(key) : key \in DOMAIN x.v}
      [] IsStr(x) -> {PyStr(SubSeq(StrOf(x), i, i)) : i \in 1..Len(StrOf(x))}

-----------------------------------------------------------------------------
(* base.py: AegisModel *)

\* hashlib.sha256(msg).hexdigest(): the digest is kept as the text it is
\* computed from, different texts giving different digests
sha256_hexdigest(msg) == "sha256(" \o msg \o ")"

\* the fields of AegisModel in declaration order
AegisModelFields ==
    <<"id", "created_at", "updated_at", "classification", "compartments",
      "portion_markings", "tenant_id">>

\* AegisModel(...): a UUID is kept as its text, a datetime as its ISO 8601
\* text in UTC
AegisModel(id, created_at, updated_at, classification, compartments, portion_markings, tenant_id) ==
    [id |-> id, created_at |-> created_at, updated_at |-> updated_at,
     classification |-> classification, compartments |-> compartments,
     portion_markings |-> portion_markings, tenant_id |-> tenant_id]

\* json.dumps(v, separators=(",", ":")) of a str free of characters that JSON
\* escapes
JsonStr(v) == "\"" \o v \o "\""

\* self.model_dump(mode="json", exclude=exclude), each value as the JSON text
\* json.dumps gives it
model_dump_json(self, exclude) ==
    LET text ==
            [id |-> JsonStr(self.id),
             created_at |-> JsonStr(self.created_at),
             updated_at |-> JsonStr(self.updated_at),
             classification |-> JsonStr(LevelValue[self.classification]),
             compartments |-> JsonStrList(MapSeq(CompartmentValue, self.compartments)),
             portion_markings |-> JsonStrList(self.portion_markings),
             tenant_id |-> IF self.tenant_id = None THEN "null"
                           ELSE JsonStr(self.tenant_id)]
    IN  [f \in ToSet(AegisModelFields) \ exclude |-> text[f]]

\* json.dumps(dump, sort_keys=True, separators=(",", ":"), default=str)
json_dumps_sorted(dump) ==
    LET keys == SortedBy(DOMAIN dump, [k \in DOMAIN dump |-> k])
        items == [i \in 1..Len(keys) |-> JsonStr(keys[i]) \o ":" \o dump[keys[i]]]
    IN  "{" \o Join(",", items) \o "}"

\* AegisModel.update_timestamp; now is the reading of utcnow()
update_timestamp(self, now) == [self EXCEPT !.updated_at = now]

\* stable_fingerprint leaving updated_at in the hashed dump
stable_fingerprint_with_updated_at(self, exclude) ==
    LET exclude1 == (IF exclude.t = "NoneType" THEN {} ELSE exclude.v)
                        \cup {"created_at"}
        serialized == json_dumps_sorted(model_dump_json(self, exclude1))
    IN  "sha256:" \o sha256_hexdigest(serialized)

\* AegisModel.stable_fingerprint; exclude is None or a set of field names
stable_fingerprint(self, exclude) ==
    LET exclude1 == (IF exclude.t = "NoneType" THEN {} ELSE exclude.v)
                        \cup {"created_at", "updated_at"}
        serialized == json_dumps_sorted(model_dump_json(self, exclude1))
    IN  "sha256:" \o sha256_hexdigest(serialized)

\* AegisModel.compute_hash
compute_hash(self) ==
    LET serialized == json_dumps_sorted(model_dump_json(self, {}))
    IN  "sha256:" \o sha256_hexdigest(serialized)

-----------------------------------------------------------------------------
(* policy_obligations.py: policy model *)

ObligationType ==
    {"MASK_FIELD", "REDACT_PORTION", "REQUIRE_MFA_STEP_UP", "REQUIRE_APPROVAL",
     "AUDIT_ACCESS", "RESTRICT_EXPORT", "RESTRICT_COPY", "WATERMARK"}

RedactionStrategy ==
    {"MASK_WITH_BRACKETS", "MASK_WITH_ASTERISKS", "MASK_WITH_HASH",
     "REMOVE_FIELD", "TRUNCATE"}

\* RedactionStrategy.<member>.value
RedactionStrategyValue ==
    [MASK_WITH_BRACKETS |-> "mask_with_brackets",
     MASK_WITH_ASTERISKS |-> "mask_with_asterisks",
     MASK_WITH_HASH |-> "mask_with_hash", REMOVE_FIELD |-> "remove_field",
     TRUNCATE |-> "truncate"]

\* FieldRedactionRule(field_path=..., field_type=..., strategy=..., ...)
FieldRedactionRule(field_path, field_type, strategy, required_clearance, required_compartments) ==
    [field_path |-> field_path, field_type |-> field_type, strategy |-> strategy,
     required_clearance |-> required_clearance,
     required_compartments |-> required_compartments]

\* validation of the keyword arguments of FieldRedactionRule(...) against the
\* declared field types: field_path and field_type are instances of str (both
\* required: a None or an omitted one fails), strategy a RedactionStrategy,
\* required_clearance None or a ClassificationLevel, required_compartments a
\* list of Compartment.  No field carries a further constraint.
FieldRedactionRule_validate(kw) ==
    /\ IsStr(kw.field_path)
    /\ IsStr(kw.field_type)
    /\ kw.strategy \in RedactionStrategy
    /\ kw.required_clearance \in ClassificationLevel \cup {None}
    /\ ToSet(kw.required_compartments) \subseteq Compartment

\* should_redact firing only when both requirements are unsatisfied
should_redact_both(self, user_clearance, user_compartments) ==
    /\ self.required_clearance # None
    /\ numeric_value(user_clearance) < numeric_value(self.required_clearance)
    /\ Len(self.required_compartments) > 0
    /\ ~(ToSet(self.required_compartments) \subseteq ToSet(user_compartments))

\* FieldRedactionRule.should_redact
should_redact(self, user_clearance, user_compartments) ==
    IF /\ self.required_clearance # None
       /\ numeric_value(user_clearance) < numeric_value(self.required_clearance)
    THEN TRUE
    ELSE IF /\ Len(self.required_compartments) > 0
            /\ ~(ToSet(self.required_compartments) \subseteq ToSet(user_compartments))
    THEN TRUE
    ELSE FALSE

\* FieldRedactionRule.apply_redaction; value is a dynamically typed value
rule_apply_redaction(self, value) ==
    IF self.strategy = "MASK_WITH_BRACKETS" THEN "[REDACTED]"
    ELSE IF self.strategy = "MASK_WITH_ASTERISKS" THEN "****"
    ELSE IF self.strategy = "MASK_WITH_HASH" THEN "#####"
    ELSE IF self.strategy = "TRUNCATE"
    THEN IF IsStr(value) /\ Len(StrOf(value)) > 6
         THEN LET chars == StrOf(value)
              IN  SubSeq(chars, 1, 3) \o "..." \o SubSeq(chars, Len(chars) - 2, Len(chars))
         ELSE "[REDACTED]"
    ELSE "[REDACTED]"

\* PortionRedactionRule(portion_name=..., portion_marking=..., ...)
PortionRedactionRule(portion_name, portion_marking, minimum_clearance, required_compartments, strategy) ==
    [portion_name |-> portion_name, portion_marking |-> portion_marking,
     minimum_clearance |-> minimum_clearance,
     required_compartments |-> required_compartments, strategy |-> strategy]

\* PortionRedactionRule.should_redact
portion_should_redact(self, user_clearance, user_compartments) ==
    IF numeric_value(user_clearance) < numeric_value(self.minimum_clearance)
    THEN TRUE
    ELSE IF /\ Len(self.required_compartments) > 0
            /\ ~(ToSet(self.required_compartments) \subseteq ToSet(user_compartments))
    THEN TRUE
    ELSE FALSE

\* AccessDecisionObligation(obligation_type=..., resource_field=..., ...);
\* resource_field is PyNone or PyStr(s), redaction_strategy None or a member
AccessDecisionObligation(obligation_type, resource_field, redaction_strategy, reason) ==
    [obligation_type |-> obligation_type, resource_field |-> resource_field,
     redaction_strategy |-> redaction_strategy, reason |-> reason]

\* ClassificationPolicy(policy_name=..., ...)
ClassificationPolicy(policy_name, field_redaction_rules, portion_redaction_rules, is_enforced) ==
    [policy_name |-> policy_name,
     field_redaction_rules |-> field_redaction_rules,
     portion_redaction_rules |-> portion_redaction_rules,
     is_active |-> TRUE, is_enforced |-> is_enforced]

\* AccessDecision(allowed=..., reason=..., ...); a holds the four snapshot fields
AccessDecision(allowed, reason, obligations, highest_classification, portion_markings, a) ==
    [allowed |-> allowed, reason |-> reason, obligations |-> obligations,
     highest_classification |-> highest_classification,
     portion_markings |-> portion_markings,
     decided_by |-> "access-control-engine",
     user_clearance |-> a.user_clearance,
     user_compartments |-> a.user_compartments,
     resource_classification |-> a.resource_classification,
     resource_compartments |-> a.resource_compartments]

-----------------------------------------------------------------------------
(* policy_obligations.py: ClassificationAggregationResult *)

\* compute_signature signing the classifications in input order as well
compute_signature_with_classifications(self, signing_key) ==
    LET serialized ==
            "{\"all_classifications\":"
                \o JsonStrList(MapSeq(LevelValue, self.all_classifications))
                \o ",\"all_compartments\":"
                \o JsonStrList(Sorted(MapSeq(CompartmentValue, self.all_compartments)))
                \o ",\"all_portion_markings\":"
                \o JsonStrList(Sorted(self.all_portion_markings))
                \o ",\"count\":" \o ToString(self.computed_from_entity_count)
                \o ",\"highest_classification\":\""
                \o LevelValue[self.highest_classification] \o "\"}"
    IN  hmac_sha256_hexdigest(signing_key, serialized)

\* ClassificationAggregationResult.compute_signature: serialized is the JSON
\* text of the payload with sorted keys and no whitespace
compute_signature(self, signing_key) ==
    LET serialized ==
            "{\"all_compartments\":"
                \o JsonStrList(Sorted(MapSeq(CompartmentValue, self.all_compartments)))
                \o ",\"all_portion_markings\":"
                \o JsonStrList(Sorted(self.all_portion_markings))
                \o ",\"count\":" \o ToString(self.computed_from_entity_count)
                \o ",\"highest_classification\":\""
                \o LevelValue[self.highest_classification] \o "\"}"
    IN  hmac_sha256_hexdigest(signing_key, serialized)

\* aggregate: the loop over the entities from index k on; acc holds
\* classifications, portion_markings_set and compartments_set
RECURSIVE aggregate_loop(_, _, _)
aggregate_loop(entities, k, acc) ==
    IF k > Len(entities) THEN acc
    ELSE
    LET entity == entities[k].v
        Has1(key) == key \in DOMAIN entity
        c == entity["classification"]
        classifications ==
            IF Has1("classification") /\ c.t # "NoneType"
            THEN Append(acc.classifications,
                        IF c.t = "ClassificationLevel" THEN c.v
                        ELSE ClassificationLevelOf(StrOf(c)))
            ELSE acc.classifications
        portion_markings_set ==
            IF Has1("portion_markings") /\ Truthy(entity["portion_markings"])
            THEN acc.portion_markings_set
                     \cup {StrOf(m) : m \in PyIter(entity["portion_markings"])}
            ELSE acc.portion_markings_set
        compartments_set ==
            IF Has1("compartments") /\ Truthy(entity["compartments"])
            THEN acc.compartments_set
                     \cup {IF comp.t = "Compartment" THEN comp.v ELSE CompartmentOf(StrOf(comp)) :
                              comp \in PyIter(entity["compartments"])}
            ELSE acc.compartments_set
    IN  aggregate_loop(entities, k + 1,
                       [classifications |-> classifications,
                        portion_markings_set |-> portion_markings_set,
                        compartments_set |-> compartments_set])

\* max(classifications, default=UNCLASSIFIED) comparing the members as str
highest_of_by_value(classifications) ==
    IF Len(classifications) = 0 THEN "UNCLASSIFIED"
    ELSE CHOOSE c \in ToSet(classifications) :
             \A d \in ToSet(classifications) : ~StrLess(LevelValue[c], LevelValue[d])

\* max(classifications, key=lambda c: c.numeric_value, default=UNCLASSIFIED)
highest_of(classifications) ==
    IF Len(classifications) = 0 THEN "UNCLASSIFIED"
    ELSE CHOOSE c \in ToSet(classifications) :
             \A d \in ToSet(classifications) : numeric_value(c) >= numeric_value(d)

\* aggregate counting the entities that carry a classification
aggregate_counting_classified(entities, signing_key, now) ==
    LET acc == aggregate_loop(entities, 1,
                   [classifications |-> <<>>, portion_markings_set |-> {},
                    compartments_set |-> {}])
        result ==
            [highest_classification |-> highest_of(acc.classifications),
             all_classifications |-> acc.classifications,
             all_portion_markings |->
                 SortedBy(acc.portion_markings_set,
                          [m \in acc.portion_markings_set |-> m]),
             all_compartments |-> SortedBy(acc.compartments_set, CompartmentValue),
             computed_at |-> now,
             computed_from_entity_count |-> Len(acc.classifications),
             signature |-> PyNone,
             signature_algorithm |-> "hmac-sha256"]
    IN  IF Truthy(signing_key)
        THEN [result EXCEPT
                  !.signature = PyStr(compute_signature(result, signing_key.v))]
        ELSE result

\* ClassificationAggregationResult.aggregate; signing_key is PyNone or
\* PyStr(s), now is the clock reading that computed_at takes
aggregate(entities, signing_key, now) ==
    LET acc == aggregate_loop(entities, 1,
                   [classifications |-> <<>>, portion_markings_set |-> {},
                    compartments_set |-> {}])
        result ==
            [highest_classification |-> highest_of(acc.classifications),
             all_classifications |-> acc.classifications,
             all_portion_markings |->
                 SortedBy(acc.portion_markings_set,
                          [m \in acc.portion_markings_set |-> m]),
             all_compartments |-> SortedBy(acc.compartments_set, CompartmentValue),
             computed_at |-> now,
             computed_from_entity_count |-> Len(entities),
             signature |-> PyNone,
             signature_algorithm |-> "hmac-sha256"]
    IN  IF Truthy(signing_key)
        THEN [result EXCEPT
                  !.signature = PyStr(compute_signature(result, signing_key.v))]
        ELSE result

-----------------------------------------------------------------------------
(* policy_obligations.py: RedactionEngine *)

\* RedactionEngine.__init__
RedactionEngine(p) == [policy |-> p]

\* _set_path_redacted overwriting every key of the map that holds the leaf
RECURSIVE _set_path_redacted_all_keys(_, _, _)
_set_path_redacted_all_keys(current, parts, redacted_value) ==
    IF Len(parts) = 0 THEN [obj |-> current, changed |-> FALSE]
    ELSE
    LET head == parts[1]
        tail == Tail(parts)
    IN  IF EndsWith(head, "[*]")
        THEN LET key == SubSeq(head, 1, Len(head) - 3)
             IN  IF \/ current.t # "dict"
                    \/ key \notin DOMAIN current.v
                    \/ current.v[key].t # "list"
                 THEN [obj |-> current, changed |-> FALSE]
                 ELSE LET items == current.v[key].v
                          rs == [i \in 1..Len(items) |->
                                    _set_path_redacted_all_keys(items[i], tail,
                                                                redacted_value)]
                          newitems == [i \in 1..Len(items) |-> rs[i].obj]
                      IN  [obj |-> PyDict([current.v EXCEPT ![key] = PyList(newitems)]),
                           changed |-> \E i \in 1..Len(items) : rs[i].changed]
        ELSE IF current.t # "dict" \/ head \notin DOMAIN current.v
        THEN [obj |-> current, changed |-> FALSE]
        ELSE IF Len(tail) = 0
        THEN [obj |-> PyDict([k \in DOMAIN current.v |-> redacted_value]),
              changed |-> TRUE]
        ELSE LET r == _set_path_redacted_all_keys(current.v[head], tail, redacted_value)
             IN  [obj |-> PyDict([current.v EXCEPT ![head] = r.obj]),
                  changed |-> r.changed]

\* _set_path_redacted leaving the list at the first element the rest of the path
\* does not resolve in
RECURSIVE _set_path_redacted_until_unresolved(_, _, _)
_set_path_redacted_until_unresolved(current, parts, redacted_value) ==
    IF Len(parts) = 0 THEN [obj |-> current, changed |-> FALSE]
    ELSE
    LET head == parts[1]
        tail == Tail(parts)
    IN  IF EndsWith(head, "[*]")
        THEN LET key == SubSeq(head, 1, Len(head) - 3)
             IN  IF \/ current.t # "dict"
                    \/ key \notin DOMAIN current.v
                    \/ current.v[key].t # "list"
                 THEN [obj |-> current, changed |-> FALSE]
                 ELSE LET items == current.v[key].v
                          rs == [i \in 1..Len(items) |->
                                    _set_path_redacted_until_unresolved(items[i], tail,
                                                                        redacted_value)]
                          newitems == [i \in 1..Len(items) |->
                                          IF \A j \in 1..(i - 1) : rs[j].changed
                                          THEN rs[i].obj
                                          ELSE items[i]]
                      IN  [obj |-> PyDict([current.v EXCEPT ![key] = PyList(newitems)]),
                           changed |-> \E i \in 1..Len(items) : rs[i].changed]
        ELSE IF current.t # "dict" \/ head \notin DOMAIN current.v
        THEN [obj |-> current, changed |-> FALSE]
        ELSE IF Len(tail) = 0
        THEN [obj |-> PyDict([current.v EXCEPT ![head] = redacted_value]),
              changed |-> TRUE]
        ELSE LET r == _set_path_redacted_until_unresolved(current.v[head], tail,
                                                          redacted_value)
             IN  [obj |-> PyDict([current.v EXCEPT ![head] = r.obj]),
                  changed |-> r.changed]

\* _set_path_redacted writing the leaf into a map that lacks the last key
RECURSIVE _set_path_redacted_creating_leaf(_, _, _)
_set_path_redacted_creating_leaf(current, parts, redacted_value) ==
    IF Len(parts) = 0 THEN [obj |-> current, changed |-> FALSE]
    ELSE
    LET head == parts[1]
        tail == Tail(parts)
    IN  IF EndsWith(head, "[*]")
        THEN LET key == SubSeq(head, 1, Len(head) - 3)
             IN  IF \/ current.t # "dict"
                    \/ key \notin DOMAIN current.v
                    \/ current.v[key].t # "list"
                 THEN [obj |-> current, changed |-> FALSE]
                 ELSE LET items == current.v[key].v
                          rs == [i \in 1..Len(items) |->
                                    _set_path_redacted_creating_leaf(items[i], tail,
                                                                     redacted_value)]
                          newitems == [i \in 1..Len(items) |-> rs[i].obj]
                      IN  [obj |-> PyDict([current.v EXCEPT ![key] = PyList(newitems)]),
                           changed |-> \E i \in 1..Len(items) : rs[i].changed]
        ELSE IF current.t # "dict" THEN [obj |-> current, changed |-> FALSE]
        ELSE IF Len(tail) = 0
        THEN [obj |-> PyDict([k \in DOMAIN current.v \cup {head} |->
                                 IF k = head THEN redacted_value ELSE current.v[k]]),
              changed |-> TRUE]
        ELSE IF head \notin DOMAIN current.v
        THEN [obj |-> current, changed |-> FALSE]
        ELSE LET r == _set_path_redacted_creating_leaf(current.v[head], tail,
                                                       redacted_value)
             IN  [obj |-> PyDict([current.v EXCEPT ![head] = r.obj]),
                  changed |-> r.changed]

\* _set_path_redacted writing the replacement text in front of the text of a
\* leaf that is a str
RECURSIVE _set_path_redacted_prepending(_, _, _)
_set_path_redacted_prepending(current, parts, redacted_value) ==
    IF Len(parts) = 0 THEN [obj |-> current, changed |-> FALSE]
    ELSE
    LET head == parts[1]
        tail == Tail(parts)
    IN  IF EndsWith(head, "[*]")
        THEN LET key == SubSeq(head, 1, Len(head) - 3)
             IN  IF \/ current.t # "dict"
                    \/ key \notin DOMAIN current.v
                    \/ current.v[key].t # "list"
                 THEN [obj |-> current, changed |-> FALSE]
                 ELSE LET items == current.v[key].v
                          rs == [i \in 1..Len(items) |->
                                    _set_path_redacted_prepending(items[i], tail,
                                                                  redacted_value)]
                          newitems == [i \in 1..Len(items) |-> rs[i].obj]
                      IN  [obj |-> PyDict([current.v EXCEPT ![key] = PyList(newitems)]),
                           changed |-> \E i \in 1..Len(items) : rs[i].changed]
        ELSE IF current.t # "dict" \/ head \notin DOMAIN current.v
        THEN [obj |-> current, changed |-> FALSE]
        ELSE IF Len(tail) = 0
        THEN [obj |-> PyDict([current.v EXCEPT ![head] =
                                 IF current.v[head].t = "str"
                                 THEN PyStr(redacted_value.v \o current.v[head].v)
                                 ELSE redacted_value]),
              changed |-> TRUE]
        ELSE LET r == _set_path_redacted_prepending(current.v[head], tail, redacted_value)
             IN  [obj |-> PyDict([current.v EXCEPT ![head] = r.obj]),
                  changed |-> r.changed]

\* _set_path_redacted replacing the elements of the list when the wildcard
\* segment is the last one
RECURSIVE _set_path_redacted_masking_elements(_, _, _)
_set_path_redacted_masking_elements(current, parts, redacted_value) ==
    IF Len(parts) = 0 THEN [obj |-> current, changed |-> FALSE]
    ELSE
    LET head == parts[1]
        tail == Tail(parts)
    IN  IF EndsWith(head, "[*]")
        THEN LET key == SubSeq(head, 1, Len(head) - 3)
             IN  IF \/ current.t # "dict"
                    \/ key \notin DOMAIN current.v
                    \/ current.v[key].t # "list"
                 THEN [obj |-> current, changed |-> FALSE]
                 ELSE IF Len(tail) = 0
                 THEN [obj |-> PyDict([current.v EXCEPT ![key] =
                                  PyList([i \in 1..Len(current.v[key].v) |->
                                             redacted_value])]),
                       changed |-> Len(current.v[key].v) > 0]
                 ELSE LET items == current.v[key].v
                          rs == [i \in 1..Len(items) |->
                                    _set_path_redacted_masking_elements(items[i], tail,
                                                                        redacted_value)]
                          newitems == [i \in 1..Len(items) |-> rs[i].obj]
                      IN  [obj |-> PyDict([current.v EXCEPT ![key] = PyList(newitems)]),
                           changed |-> \E i \in 1..Len(items) : rs[i].changed]
        ELSE IF current.t # "dict" \/ head \notin DOMAIN current.v
        THEN [obj |-> current, changed |-> FALSE]
        ELSE IF Len(tail) = 0
        THEN [obj |-> PyDict([current.v EXCEPT ![head] = redacted_value]),
              changed |-> TRUE]
        ELSE LET r == _set_path_redacted_masking_elements(current.v[head], tail,
                                                          redacted_value)
             IN  [obj |-> PyDict([current.v EXCEPT ![head] = r.obj]),
                  changed |-> r.changed]

\* RedactionEngine._set_path_redacted.  The code mutates current in place and
\* returns whether it changed; here obj is the object after the call.
RECURSIVE _set_path_redacted(_, _, _)
_set_path_redacted(current, parts, redacted_value) ==
    IF Len(parts) = 0 THEN [obj |-> current, changed |-> FALSE]
    ELSE
    LET head == parts[1]
        tail == Tail(parts)
    IN  IF EndsWith(head, "[*]")
        THEN LET key == SubSeq(head, 1, Len(head) - 3)
             IN  IF \/ current.t # "dict"
                    \/ key \notin DOMAIN current.v
                    \/ current.v[key].t # "list"
                 THEN [obj |-> current, changed |-> FALSE]
                 ELSE LET items == current.v[key].v
                          rs == [i \in 1..Len(items) |->
                                    _set_path_redacted(items[i], tail, redacted_value)]
                          newitems == [i \in 1..Len(items) |-> rs[i].obj]
                      IN  [obj |-> PyDict([current.v EXCEPT ![key] = PyList(newitems)]),
                           changed |-> \E i \in 1..Len(items) : rs[i].changed]
        ELSE IF current.t # "dict" \/ head \notin DOMAIN current.v
        THEN [obj |-> current, changed |-> FALSE]
        ELSE IF Len(tail) = 0
        THEN [obj |-> PyDict([current.v EXCEPT ![head] = redacted_value]),
              changed |-> TRUE]
        ELSE LET r == _set_path_redacted(current.v[head], tail, redacted_value)
             IN  [obj |-> PyDict([current.v EXCEPT ![head] = r.obj]),
                  changed |-> r.changed]

\* the assignments current[head] = redacted_value one call of
\* _set_path_redacted makes, in the order it makes them.  An assignment is named
\* by the steps from current to the key assigned: a key of a dict or an index
\* of a list.
RECURSIVE _set_path_redacted_writes(_, _)
_set_path_redacted_writes(current, parts) ==
    IF Len(parts) = 0 THEN <<>>
    ELSE
    LET head == parts[1]
        tail == Tail(parts)
        RECURSIVE Flat(_, _, _)
        Flat(key, items, i) ==
            IF i > Len(items) THEN <<>>
            ELSE LET ws == _set_path_redacted_writes(items[i], tail)
                 IN  [j \in 1..Len(ws) |->
                         <<[t |-> "key", v |-> key], [t |-> "index", v |-> i]>> \o ws[j]]
                     \o Flat(key, items, i + 1)
    IN  IF EndsWith(head, "[*]")
        THEN LET key == SubSeq(head, 1, Len(head) - 3)
             IN  IF \/ current.t # "dict"
                    \/ key \notin DOMAIN current.v
                    \/ current.v[key].t # "list"
                 THEN <<>>
                 ELSE Flat(key, current.v[key].v, 1)
        ELSE IF current.t # "dict" \/ head \notin DOMAIN current.v
        THEN <<>>
        ELSE IF Len(tail) = 0
        THEN << <<[t |-> "key", v |-> head]>> >>
        ELSE LET ws == _set_path_redacted_writes(current.v[head], tail)
             IN  [j \in 1..Len(ws) |-> <<[t |-> "key", v |-> head]>> \o ws[j]]

\* the object current after one assignment of _set_path_redacted, the one
\* named by steps
RECURSIVE _set_path_redacted_write(_, _, _)
_set_path_redacted_write(current, steps, redacted_value) ==
    IF Len(steps) = 1
    THEN PyDict([current.v EXCEPT ![steps[1].v] = redacted_value])
    ELSE LET below == _set_path_redacted_write(current.v[steps[1].v], Tail(steps),
                                               redacted_value)
         IN  IF steps[1].t = "key"
             THEN PyDict([current.v EXCEPT ![steps[1].v] = below])
             ELSE PyList([current.v EXCEPT ![steps[1].v] = below])

\* body of the loop of RedactionEngine.redact_field for one rule
redact_field_rule(rule, data, field_path, user_clearance, user_compartments) ==
    IF rule.field_path # field_path THEN data
    ELSE IF ~should_redact(rule, user_clearance, user_compartments) THEN data
    ELSE LET parts == Split(field_path, ".")
             redacted_value == PyStr(rule_apply_redaction(rule, PyNone))
         IN  _set_path_redacted(data, parts, redacted_value).obj

\* the loop of redact_field leaving at the first rule of the path that fires
RECURSIVE redact_field_loop_first_match(_, _, _, _, _, _)
redact_field_loop_first_match(self, k, data, field_path, user_clearance, user_compartments) ==
    IF k > Len(self.policy.field_redaction_rules) THEN data
    ELSE LET rule == self.policy.field_redaction_rules[k]
         IN  IF /\ rule.field_path = field_path
                /\ should_redact(rule, user_clearance, user_compartments)
             THEN redact_field_rule(rule, data, field_path, user_clearance,
                                    user_compartments)
             ELSE redact_field_loop_first_match(self, k + 1, data, field_path,
                                                user_clearance, user_compartments)

\* the loop of RedactionEngine.redact_field over the rules from index k on
RECURSIVE redact_field_loop(_, _, _, _, _, _)
redact_field_loop(self, k, data, field_path, user_clearance, user_compartments) ==
    IF k > Len(self.policy.field_redaction_rules) THEN data
    ELSE redact_field_loop(self, k + 1,
             redact_field_rule(self.policy.field_redaction_rules[k], data,
                               field_path, user_clearance, user_compartments),
             field_path, user_clearance, user_compartments)

\* RedactionEngine.redact_field: data is mutated in place and returned
redact_field(self, data, field_path, user_clearance, user_compartments) ==
    redact_field_loop(self, 1, data, field_path, user_clearance, user_compartments)

\* first loop of RedactionEngine.compute_obligations
field_obligations(self, user_clearance, user_compartments) ==
    LET rules == self.policy.field_redaction_rules
        Firing(rule) == should_redact(rule, user_clearance, user_compartments)
        Obl == [rule \in ToSet(rules) |->
                   AccessDecisionObligation("MASK_FIELD", PyStr(rule.field_path),
                       rule.strategy, "Redaction rule applies")]
    IN  MapSeq(Obl, SelectSeq(rules, Firing))

\* second loop of RedactionEngine.compute_obligations
portion_obligations(self, user_clearance, user_compartments) ==
    LET rules == self.policy.portion_redaction_rules
        Firing(rule) == portion_should_redact(rule, user_clearance, user_compartments)
        Obl == [rule \in ToSet(rules) |->
                   AccessDecisionObligation("REDACT_PORTION", PyStr(rule.portion_name),
                       rule.strategy, "Portion redaction rule applies")]
    IN  MapSeq(Obl, SelectSeq(rules, Firing))

\* RedactionEngine.compute_obligations
compute_obligations(self, user_clearance, user_compartments) ==
    field_obligations(self, user_clearance, user_compartments)
        \o portion_obligations(self, user_clearance, user_compartments)

\* RedactionEngine.apply_obligations: the loop over the obligations from index k on
RECURSIVE apply_obligations_loop(_, _, _, _, _, _)
apply_obligations_loop(self, k, data, obligations, user_clearance, user_compartments) ==
    IF k > Len(obligations) THEN data
    ELSE LET o == obligations[k]
             next == IF /\ o.obligation_type = "MASK_FIELD"
                        /\ Truthy(o.resource_field)
                     THEN redact_field(self, data, o.resource_field.v,
                                       user_clearance, user_compartments)
                     ELSE data
         IN  apply_obligations_loop(self, k + 1, next, obligations,
                                    user_clearance, user_compartments)

\* RedactionEngine.apply_obligations
apply_obligations(self, data, obligations, user_clearance, user_compartments) ==
    apply_obligations_loop(self, 1, data, obligations, user_clearance, user_compartments)

-----------------------------------------------------------------------------
(* access_control_engine.py: AccessControlEngine *)

\* AccessControlEngine.__init__
AccessControlEngine(p, signing_key) ==
    [policy |-> p, signing_key |-> signing_key, redaction_engine |-> RedactionEngine(p)]

\* _check_need_to_know asking for every required role instead of any
_check_need_to_know_all(self, user_roles, resource_attrs) ==
    IF ~Truthy(resource_attrs) THEN TRUE
    ELSE LET required_roles ==
                 IF "required_roles" \in DOMAIN resource_attrs.v
                 THEN resource_attrs.v["required_roles"]
                 ELSE PyNone
         IN  IF /\ Truthy(required_roles)
                /\ ~(\A i \in 1..Len(required_roles.v) :
                        required_roles.v[i] \in ToSet(user_roles))
             THEN FALSE
             ELSE TRUE

\* AccessControlEngine._check_need_to_know
_check_need_to_know(self, user_roles, resource_attrs) ==
    IF ~Truthy(resource_attrs) THEN TRUE
    ELSE LET required_roles ==
                 IF "required_roles" \in DOMAIN resource_attrs.v
                 THEN resource_attrs.v["required_roles"]
                 ELSE PyNone
         IN  IF /\ Truthy(required_roles)
                /\ ~(\E i \in 1..Len(required_roles.v) :
                        required_roles.v[i] \in ToSet(user_roles))
             THEN FALSE
             ELSE TRUE

\* the clearance test passing only a clearance equal to the classification
clearance_insufficient_unless_equal(a) ==
    numeric_value(a.user_clearance) # numeric_value(a.resource_classification)

\* make_access_decision, step 3: the clearance test
clearance_insufficient(a) ==
    numeric_value(a.user_clearance) < numeric_value(a.resource_classification)

\* make_access_decision, step 3: the denial reason
insufficient_clearance_reason(a) ==
    "Insufficient clearance: user has " \o LevelValue[a.user_clearance]
        \o ", resource requires " \o LevelValue[a.resource_classification]

\* the step 4 reason listing the missing compartments in the resource's order
missing_compartments_reason_unsorted(a) ==
    LET Lacking(c) == c \notin ToSet(a.user_compartments)
    IN  "Missing compartments: "
            \o Join(", ", MapSeq(CompartmentValue,
                                 SelectSeq(a.resource_compartments, Lacking)))

\* the step 4 reason naming a missing compartment once for each time the
\* resource lists it
missing_compartments_reason_with_repeats(a) ==
    LET Lacking(c) == c \notin ToSet(a.user_compartments)
    IN  "Missing compartments: "
            \o Join(", ", Sorted(MapSeq(CompartmentValue,
                                        SelectSeq(a.resource_compartments, Lacking))))

\* make_access_decision, step 4: the denial reason
missing_compartments_reason(a) ==
    LET missing == ToSet(a.resource_compartments) \ ToSet(a.user_compartments)
    IN  "Missing compartments: "
            \o Join(", ", MapSeq(CompartmentValue, SortedBy(missing, CompartmentValue)))

\* the obligations with a single step-up obligation when both rules fire
decision_obligations_single_step_up(self, a) ==
    LET rank == numeric_value(a.resource_classification)
        secret == numeric_value("SECRET")
        cui == numeric_value("CUI")
    IN  (IF a.device_posture = "untrusted" /\ rank >= secret
         THEN <<AccessDecisionObligation("REQUIRE_MFA_STEP_UP", PyNone, None,
                    "Device is untrusted; Secret+ data requires additional MFA")>>
         ELSE IF rank >= secret /\ ~a.user_mfa_verified
         THEN <<AccessDecisionObligation("REQUIRE_MFA_STEP_UP", PyNone, None,
                    "Secret+ data requires MFA verification")>>
         ELSE <<>>)
        \o
        (IF rank >= cui
         THEN <<AccessDecisionObligation("AUDIT_ACCESS", PyNone, None,
                    "Accessing " \o LevelValue[a.resource_classification] \o " data")>>
         ELSE <<>>)

\* the obligations with those of the policy's rules merged in
decision_obligations_with_policy(self, a) ==
    LET rank == numeric_value(a.resource_classification)
        secret == numeric_value("SECRET")
        cui == numeric_value("CUI")
    IN  (IF a.device_posture = "untrusted" /\ rank >= secret
         THEN <<AccessDecisionObligation("REQUIRE_MFA_STEP_UP", PyNone, None,
                    "Device is untrusted; Secret+ data requires additional MFA")>>
         ELSE <<>>)
        \o
        (IF rank >= secret /\ ~a.user_mfa_verified
         THEN <<AccessDecisionObligation("REQUIRE_MFA_STEP_UP", PyNone, None,
                    "Secret+ data requires MFA verification")>>
         ELSE <<>>)
        \o
        (IF rank >= cui
         THEN <<AccessDecisionObligation("AUDIT_ACCESS", PyNone, None,
                    "Accessing " \o LevelValue[a.resource_classification] \o " data")>>
         ELSE <<>>)
        \o compute_obligations(self.redaction_engine, a.user_clearance,
                               a.user_compartments)

\* make_access_decision: the obligations of an allowed decision
decision_obligations(self, a) ==
    LET rank == numeric_value(a.resource_classification)
        secret == numeric_value("SECRET")
        cui == numeric_value("CUI")
    IN  (IF a.device_posture = "untrusted" /\ rank >= secret
         THEN <<AccessDecisionObligation("REQUIRE_MFA_STEP_UP", PyNone, None,
                    "Device is untrusted; Secret+ data requires additional MFA")>>
         ELSE <<>>)
        \o
        (IF rank >= secret /\ ~a.user_mfa_verified
         THEN <<AccessDecisionObligation("REQUIRE_MFA_STEP_UP", PyNone, None,
                    "Secret+ data requires MFA verification")>>
         ELSE <<>>)
        \o
        (IF rank >= cui
         THEN <<AccessDecisionObligation("AUDIT_ACCESS", PyNone, None,
                    "Accessing " \o LevelValue[a.resource_classification] \o " data")>>
         ELSE <<>>)

\* make_access_decision with the session check ahead of the account check
make_access_decision_session_first(self, a) ==
    IF ~a.session_active
    THEN AccessDecision(FALSE, "Session is not active", <<>>, None, <<>>, a)
    ELSE IF a.user_account_suspended
    THEN AccessDecision(FALSE, "User account is suspended", <<>>, None, <<>>, a)
    ELSE IF clearance_insufficient(a)
    THEN AccessDecision(FALSE, insufficient_clearance_reason(a), <<>>, None, <<>>, a)
    ELSE IF ~(ToSet(a.resource_compartments) \subseteq ToSet(a.user_compartments))
    THEN AccessDecision(FALSE, missing_compartments_reason(a), <<>>, None, <<>>, a)
    ELSE IF /\ Truthy(a.resource_need_to_know_attrs)
            /\ ~_check_need_to_know(self, a.user_roles, a.resource_need_to_know_attrs)
    THEN AccessDecision(FALSE, "Need-to-know denied", <<>>, None, <<>>, a)
    ELSE LET Marking == [c \in Compartment |-> "//" \o CompartmentValue[c]]
         IN  AccessDecision(TRUE, "All access control checks passed",
                            decision_obligations(self, a), a.resource_classification,
                            MapSeq(Marking, a.resource_compartments), a)

\* make_access_decision building the obligations and the banner fields ahead
\* of the need-to-know check and returning them with its denial
make_access_decision_obligations_first(self, a) ==
    IF a.user_account_suspended
    THEN AccessDecision(FALSE, "User account is suspended", <<>>, None, <<>>, a)
    ELSE IF ~a.session_active
    THEN AccessDecision(FALSE, "Session is not active", <<>>, None, <<>>, a)
    ELSE IF clearance_insufficient(a)
    THEN AccessDecision(FALSE, insufficient_clearance_reason(a), <<>>, None, <<>>, a)
    ELSE IF ~(ToSet(a.resource_compartments) \subseteq ToSet(a.user_compartments))
    THEN AccessDecision(FALSE, missing_compartments_reason(a), <<>>, None, <<>>, a)
    ELSE LET Marking == [c \in Compartment |-> "//" \o CompartmentValue[c]]
         IN  IF /\ Truthy(a.resource_need_to_know_attrs)
                /\ ~_check_need_to_know(self, a.user_roles, a.resource_need_to_know_attrs)
             THEN AccessDecision(FALSE, "Need-to-know denied",
                                 decision_obligations(self, a), a.resource_classification,
                                 MapSeq(Marking, a.resource_compartments), a)
             ELSE AccessDecision(TRUE, "All access control checks passed",
                                 decision_obligations(self, a), a.resource_classification,
                                 MapSeq(Marking, a.resource_compartments), a)

\* AccessControlEngine.make_access_decision; a holds the keyword arguments
make_access_decision(self, a) ==
    IF a.user_account_suspended
    THEN AccessDecision(FALSE, "User account is suspended", <<>>, None, <<>>, a)
    ELSE IF ~a.session_active
    THEN AccessDecision(FALSE, "Session is not active", <<>>, None, <<>>, a)
    ELSE IF clearance_insufficient(a)
    THEN AccessDecision(FALSE, insufficient_clearance_reason(a), <<>>, None, <<>>, a)
    ELSE IF ~(ToSet(a.resource_compartments) \subseteq ToSet(a.user_compartments))
    THEN AccessDecision(FALSE, missing_compartments_reason(a), <<>>, None, <<>>, a)
    ELSE IF /\ Truthy(a.resource_need_to_know_attrs)
            /\ ~_check_need_to_know(self, a.user_roles, a.resource_need_to_know_attrs)
    THEN AccessDecision(FALSE, "Need-to-know denied", <<>>, None, <<>>, a)
    ELSE LET Marking == [c \in Compartment |-> "//" \o CompartmentValue[c]]
         IN  AccessDecision(TRUE, "All access control checks passed",
                            decision_obligations(self, a), a.resource_classification,
                            MapSeq(Marking, a.resource_compartments), a)

\* AccessControlEngine.apply_redaction: data is mutated in place and returned
apply_redaction(self, data, user_clearance, user_compartments) ==
    LET obligations == compute_obligations(self.redaction_engine,
                                           user_clearance, user_compartments)
    IN  apply_obligations(self.redaction_engine, data, obligations,
                          user_clearance, user_compartments)

-----------------------------------------------------------------------------
(* apps/aegis_demo_api/security_context.py *)

\* ObligationType.<member>.value
ObligationTypeValue ==
    [MASK_FIELD |-> "mask_field", REDACT_PORTION |-> "redact_portion",
     REQUIRE_MFA_STEP_UP |-> "require_mfa_step_up",
     REQUIRE_APPROVAL |-> "require_approval", AUDIT_ACCESS |-> "audit_access",
     RESTRICT_EXPORT |-> "restrict_export", RESTRICT_COPY |-> "restrict_copy",
     WATERMARK |-> "watermark"]

\* d.get(key, default) of a dict
PyGet(d, key, default) == IF key \in DOMAIN d.v THEN d.v[key] ELSE default

\* build_demo_policy
build_demo_policy ==
    ClassificationPolicy("Demo Policy",
        <<FieldRedactionRule("incident.affected_users[*].email", "email",
                             "MASK_WITH_BRACKETS", "SECRET", <<"HUMINT">>)>>,
        <<>>, TRUE)

\* evaluate_and_render: the entity appended for the incident or for an alert
entity_for_agg(x) ==
    LET c == PyGet(x, "classification", PyStr(LevelValue["UNCLASSIFIED"]))
    IN  PyDict([classification |->
                    PyLevel(IF c.t = "ClassificationLevel" THEN c.v
                            ELSE ClassificationLevelOf(StrOf(c))),
                portion_markings |-> PyGet(x, "portion_markings", PyList(<<>>)),
                compartments |-> PyGet(x, "compartments", PyList(<<>>))])

\* entities_for_agg without the related alerts
entities_for_agg_incident_only(redacted) == <<entity_for_agg(redacted)>>

\* evaluate_and_render: entities_for_agg, the incident and its related alerts
entities_for_agg(redacted) ==
    LET related == PyGet(redacted, "related_alerts", PyList(<<>>))
        alerts == IF Truthy(related) THEN related.v ELSE <<>>
    IN  <<entity_for_agg(redacted)>>
            \o [i \in 1..Len(alerts) |-> entity_for_agg(alerts[i])]

\* evaluate_and_render: the headers of an allowed response
render_headers(agg) ==
    LET headers ==
            ("X-Classification" :> LevelValue[agg.highest_classification])
            @@ ("X-Portion-Markings" :> Join(",", agg.all_portion_markings))
    IN  IF Truthy(agg.signature)
        THEN headers @@ ("X-Classification-Signature" :> agg.signature.v)
        ELSE headers

\* the response to a denial carrying a banner header
deny_response_with_banner(decision) ==
    [allowed |-> FALSE, reason |-> decision.reason,
     headers |-> ("X-Classification" :> LevelValue[decision.resource_classification]),
     body |-> PyDict("error" :> PyStr(decision.reason))]

\* evaluate_and_render: the tuple returned for a denial
deny_response(decision) ==
    [allowed |-> FALSE, reason |-> decision.reason, headers |-> <<>>,
     body |-> PyDict("error" :> PyStr(decision.reason))]

\* [o.model_dump(mode="json") for o in decision.obligations]
model_dump_obligations(obligations) ==
    LET StrategyJson(x) == IF x = None THEN PyNone
                           ELSE PyStr(RedactionStrategyValue[x])
    IN  PyList([i \in 1..Len(obligations) |->
                   PyDict([obligation_type |->
                               PyStr(ObligationTypeValue[obligations[i].obligation_type]),
                           resource_field |-> obligations[i].resource_field,
                           redaction_strategy |->
                               StrategyJson(obligations[i].redaction_strategy),
                           reason |-> PyStr(obligations[i].reason)])])

\* evaluate_and_render; a holds the keyword arguments, now is the clock reading
\* of the aggregation.  returned is the tuple (allowed, reason, headers, body),
\* incident_payload is the caller's payload object after the call.
evaluate_and_render(a, now) ==
    LET engine == AccessControlEngine(build_demo_policy, a.signing_key)
        decision ==
            make_access_decision(engine,
                [user_clearance |-> a.user_clearance,
                 user_compartments |-> a.user_compartments,
                 user_roles |-> a.user_roles,
                 user_mfa_verified |-> a.user_mfa_verified,
                 user_account_suspended |-> a.user_account_suspended,
                 resource_classification |-> a.resource_classification,
                 resource_compartments |-> a.resource_compartments,
                 resource_need_to_know_attrs |-> PyNone,
                 device_posture |-> a.device_posture,
                 session_active |-> a.session_active])
    IN  IF ~decision.allowed
        THEN [returned |-> deny_response(decision),
              incident_payload |-> a.incident_payload]
        ELSE
        LET redacted == apply_redaction(engine, a.incident_payload, a.user_clearance,
                                        a.user_compartments)
            agg == aggregate(entities_for_agg(redacted), a.signing_key, now)
            headers == render_headers(agg)
            body == PyDict(("_access_obligations"
                                :> model_dump_obligations(decision.obligations))
                           @@ redacted.v)
        IN  [returned |-> [allowed |-> TRUE, reason |-> decision.reason,
                           headers |-> headers, body |-> body],
             incident_payload |-> body]

-----------------------------------------------------------------------------
(* Inputs explored *)

\* all lists of length at most n over the set S
ListsUpTo(S, n) == UNION {[1..k -> S] : k \in 0..n}

\* compartments the explored users and resources carry
CompartmentPool == {"NOFORN", "HUMINT"}

\* compartments of the compartment runs
CompartmentPool3 == {"NOFORN", "NOCONTRACT", "HUMINT"}

RoleLists == {<<>>, <<"analyst">>, <<"auditor", "analyst">>}

NeedToKnowAttrs ==
    {PyNone,
     PyDict(<<>>),
     PyDict("required_roles" :> PyList(<<>>)),
     PyDict("required_roles" :> PyList(<<"analyst">>)),
     PyDict("required_roles" :> PyList(<<"admin", "auditor">>)),
     PyDict("sectors" :> PyList(<<"energy">>))}

DevicePostures == {"trusted", "untrusted", "unknown"}

\* the policy of the redaction tests (tests/integration/test_classification_redaction.py)
TestPolicy ==
    ClassificationPolicy("Redaction Policy",
        <<FieldRedactionRule("user.email", "email", "MASK_WITH_BRACKETS", "SECRET", <<>>),
          FieldRedactionRule("incident.affected_users[*].email", "email",
                             "MASK_WITH_BRACKETS", "SECRET", <<"HUMINT">>)>>,
        <<PortionRedactionRule("classified_section", "//TS//SCI", "TS_SCI", <<>>,
                               "REMOVE_FIELD")>>,
        TRUE)

EmptyPolicy == ClassificationPolicy("Test Policy", <<>>, <<>>, TRUE)

DecideArgs ==
    [user_clearance : ClassificationLevel,
     user_compartments : ListsUpTo(CompartmentPool, MaxComps),
     user_roles : RoleLists,
     user_mfa_verified : BOOLEAN,
     user_account_suspended : BOOLEAN,
     resource_classification : ClassificationLevel,
     resource_compartments : ListsUpTo(CompartmentPool, MaxComps),
     resource_need_to_know_attrs : NeedToKnowAttrs,
     device_posture : DevicePostures,
     session_active : BOOLEAN]

-----------------------------------------------------------------------------
(* The decision point: one make_access_decision call on any explored input *)

InitDecide ==
    /\ policy \in {EmptyPolicy, TestPolicy}
    /\ payload = PyNone
    /\ op = "make_access_decision"
    /\ args \in DecideArgs
    /\ pc = "call"
    /\ ret = None
    /\ frame = None

MakeAccessDecision ==
    /\ op = "make_access_decision"
    /\ pc = "call"
    /\ ret' = make_access_decision(AccessControlEngine(policy, PyNone), args)
    /\ pc' = "done"
    /\ UNCHANGED <<policy, payload, op, args, frame>>

NextDecide == MakeAccessDecision

Spec == InitDecide /\ [][NextDecide]_vars

\* The same call with longer compartment lists over three compartments; the
\* inputs the compartment check does not read are held to fewer values.
CompartmentArgs ==
    [user_clearance : {"CUI", "SECRET"},
     user_compartments : ListsUpTo(CompartmentPool3, MaxCompList),
     user_roles : {<<"analyst">>},
     user_mfa_verified : {TRUE},
     user_account_suspended : BOOLEAN,
     resource_classification : {"CUI", "SECRET"},
     resource_compartments : ListsUpTo(CompartmentPool3, MaxCompList),
     resource_need_to_know_attrs :
         {PyNone, PyDict("required_roles" :> PyList(<<"admin", "auditor">>))},
     device_posture : {"trusted"},
     session_active : BOOLEAN]

InitCompartments ==
    /\ policy = EmptyPolicy
    /\ payload = PyNone
    /\ op = "make_access_decision"
    /\ args \in CompartmentArgs
    /\ pc = "call"
    /\ ret = None
    /\ frame = None

SpecCompartments == InitCompartments /\ [][NextDecide]_vars

-----------------------------------------------------------------------------
(* The redaction engine: one should_redact, compute_obligations or           *)
(* apply_redaction call on any explored policy, subject and payload          *)

\* field rules the explored policies are built from
RulePool ==
    {FieldRedactionRule("user.email", "email", "MASK_WITH_BRACKETS", "SECRET", <<>>),
     FieldRedactionRule("incident.affected_users[*].email", "email",
                        "MASK_WITH_BRACKETS", "SECRET", <<"HUMINT">>),
     FieldRedactionRule("user.email", "email", "MASK_WITH_ASTERISKS", None, <<"HUMINT">>),
     FieldRedactionRule("user", "string", "MASK_WITH_HASH", "TOP_SECRET", <<>>),
     FieldRedactionRule("user.name", "string", "TRUNCATE", "SECRET", <<>>),
     FieldRedactionRule("user.ssn", "string", "REMOVE_FIELD", "CONFIDENTIAL", <<>>),
     FieldRedactionRule("tags[*]", "string", "MASK_WITH_BRACKETS", "SECRET", <<>>),
     FieldRedactionRule("user.name", "string", "MASK_WITH_BRACKETS", None, <<>>)}

PortionRulePool ==
    {PortionRedactionRule("classified_section", "//TS//SCI", "TS_SCI", <<>>,
                          "REMOVE_FIELD")}

RedactPolicies ==
    {ClassificationPolicy("Redaction Policy", f, q, e) :
        f \in ListsUpTo(RulePool, MaxRules),
        q \in ListsUpTo(PortionRulePool, 1),
        e \in BOOLEAN}

\* rules should_redact is called on alone
ShouldRedactRules ==
    {FieldRedactionRule("user.email", "email", "MASK_WITH_BRACKETS", c, m) :
        c \in ClassificationLevel \cup {None},
        m \in ListsUpTo(CompartmentPool, MaxRuleComps)}

SubjectCompartments == {<<>>, <<"NOFORN">>, <<"HUMINT">>, <<"HUMINT", "NOFORN">>}

\* payload of test_field_redaction_applied_simple
PayloadSimple ==
    PyDict("user" :> PyDict([name |-> PyStr("Alice Smith"),
                             email |-> PyStr("alice@agency.gov")]))

\* payload of test_field_redaction_list_wildcard
PayloadWildcard ==
    PyDict("incident" :> PyDict("affected_users" :> PyList(
        <<PyDict([name |-> PyStr("Alice"), email |-> PyStr("alice@agency.gov")]),
          PyDict([name |-> PyStr("Bob"), email |-> PyStr("bob@agency.gov")])>>)))

\* a payload with every shape: a list of strings, a list mixing maps with and
\* without the key and a string
PayloadMixed ==
    PyDict([user |-> PyDict([name |-> PyStr("Al"), email |-> PyStr("al@agency.gov"),
                             ssn |-> PyStr("123-45-6789")]),
            tags |-> PyList(<<PyStr("red"), PyStr("blue")>>),
            incident |-> PyDict("affected_users" :> PyList(
                <<PyDict([name |-> PyStr("A"), email |-> PyStr("a@x")]),
                  PyStr("n/a"),
                  PyDict("name" :> PyStr("B")),
                  PyDict([name |-> PyStr("C"), email |-> PyStr("c@x")])>>))])

\* a payload whose values have other types than the rules expect
PayloadOdd ==
    PyDict([user |-> PyStr("alice"),
            tags |-> PyStr("red"),
            incident |-> PyDict("affected_users" :> PyDict("email" :> PyStr("x")))])

Payloads == {PayloadSimple, PayloadWildcard, PayloadMixed, PayloadOdd}

InitShouldRedact ==
    /\ policy = EmptyPolicy
    /\ payload = PyNone
    /\ op = "should_redact"
    /\ args \in [self : ShouldRedactRules,
                  user_clearance : ClassificationLevel,
                  user_compartments : ListsUpTo(CompartmentPool, MaxRuleComps)]

InitComputeObligations ==
    /\ policy \in RedactPolicies
    /\ payload = PyNone
    /\ op = "compute_obligations"
    /\ args \in [user_clearance : ClassificationLevel,
                  user_compartments : SubjectCompartments]

\* args.data is the payload as it is when passed in
InitApplyRedaction ==
    /\ policy \in RedactPolicies
    /\ payload \in Payloads
    /\ op = "apply_redaction"
    /\ args \in [data : {payload},
                  user_clearance : ClassificationLevel,
                  user_compartments : SubjectCompartments]

InitRedact ==
    /\ \/ InitShouldRedact
       \/ InitComputeObligations
       \/ InitApplyRedaction
    /\ pc = "call"
    /\ ret = None
    /\ frame = None

ShouldRedact ==
    /\ op = "should_redact"
    /\ pc = "call"
    /\ ret' = should_redact(args.self, args.user_clearance, args.user_compartments)
    /\ pc' = "done"
    /\ UNCHANGED <<policy, payload, op, args, frame>>

ComputeObligations ==
    /\ op = "compute_obligations"
    /\ pc = "call"
    /\ ret' = compute_obligations(RedactionEngine(policy), args.user_clearance,
                                  args.user_compartments)
    /\ pc' = "done"
    /\ UNCHANGED <<policy, payload, op, args, frame>>

\* the payload object is rewritten in place and is the object returned
ApplyRedaction ==
    /\ op = "apply_redaction"
    /\ pc = "call"
    /\ payload' = apply_redaction(AccessControlEngine(policy, PyNone), payload,
                                  args.user_clearance, args.user_compartments)
    /\ ret' = payload'
    /\ pc' = "done"
    /\ UNCHANGED <<policy, op, args, frame>>

NextRedact ==
    \/ ShouldRedact
    \/ ComputeObligations
    \/ ApplyRedaction

SpecRedact == InitRedact /\ [][NextRedact]_vars

-----------------------------------------------------------------------------
(* Two callers of apply_redaction on one payload object.  Each caller runs   *)
(* AccessControlEngine.apply_redaction for its own subject; the callers'     *)
(* steps interleave between the assignments _set_path_redacted makes to the  *)
(* object.  pc, args, ret and frame hold one entry per caller; frame holds   *)
(* the obligations, the index k of the obligation, the index rule of the     *)
(* rule redact_field is at and the number done of the assignments made for   *)
(* that rule.  No path of the policies explored extends another, so no       *)
(* assignment replaces a dict or list a caller is inside of.                 *)

Callers == {"first", "second"}

ConcurrentPolicies ==
    {TestPolicy,
     ClassificationPolicy("Redaction Policy",
        <<FieldRedactionRule("user.email", "email", "MASK_WITH_ASTERISKS", None, <<"HUMINT">>),
          FieldRedactionRule("user.name", "string", "MASK_WITH_BRACKETS", "TOP_SECRET", <<>>)>>,
        <<>>, TRUE)}

ConcurrentSubjects ==
    [user_clearance : {"UNCLASSIFIED", "SECRET", "TOP_SECRET"},
     user_compartments : {<<>>, <<"HUMINT">>}]

InitConcurrent ==
    /\ policy \in ConcurrentPolicies
    /\ payload \in Payloads
    /\ op = [c \in Callers |-> "apply_redaction"]
    /\ \E subject \in [Callers -> ConcurrentSubjects] :
           args = [c \in Callers |->
                      [data |-> payload,
                       user_clearance |-> subject[c].user_clearance,
                       user_compartments |-> subject[c].user_compartments]]
    /\ pc = [c \in Callers |-> "call"]
    /\ ret = [c \in Callers |-> None]
    /\ frame = [c \in Callers |-> None]

\* apply_redaction, first statement: the obligations of the caller's subject
ComputeObligationsOf(c) ==
    /\ pc[c] = "call"
    /\ frame' = [frame EXCEPT ![c] =
                    [obligations |->
                         compute_obligations(RedactionEngine(policy),
                                             args[c].user_clearance,
                                             args[c].user_compartments),
                     k |-> 1, rule |-> 1, done |-> 0]]
    /\ pc' = [pc EXCEPT ![c] = "apply_obligations"]
    /\ UNCHANGED <<policy, payload, op, args, ret>>

\* apply_obligations, one pass through the head of its loop: a MASK_FIELD
\* obligation with a resource_field enters redact_field, any other is passed
\* over
ApplyObligationOf(c) ==
    /\ pc[c] = "apply_obligations"
    /\ frame[c].k <= Len(frame[c].obligations)
    /\ LET o == frame[c].obligations[frame[c].k]
       IN  IF o.obligation_type = "MASK_FIELD" /\ Truthy(o.resource_field)
           THEN /\ pc' = [pc EXCEPT ![c] = "redact_field"]
                /\ frame' = [frame EXCEPT ![c].rule = 1, ![c].done = 0]
           ELSE /\ pc' = pc
                /\ frame' = [frame EXCEPT ![c].k = @ + 1]
    /\ UNCHANGED <<policy, payload, op, args, ret>>

\* the rule the loop of redact_field of caller c is at
RuleOf(c) == policy.field_redaction_rules[frame[c].rule]

\* the rule caller c is at has the path of the obligation and fires for the
\* subject of c
RuleAppliesOf(c) ==
    /\ RuleOf(c).field_path = frame[c].obligations[frame[c].k].resource_field.v
    /\ should_redact(RuleOf(c), args[c].user_clearance, args[c].user_compartments)

\* the assignments of the call of _set_path_redacted caller c is in, on the
\* shared object as it is now
WritesOf(c) == _set_path_redacted_writes(payload, Split(RuleOf(c).field_path, "."))

\* redact_field, the two continue statements: the rule has another path or
\* does not fire
SkipRuleOf(c) ==
    /\ pc[c] = "redact_field"
    /\ frame[c].rule <= Len(policy.field_redaction_rules)
    /\ ~RuleAppliesOf(c)
    /\ frame' = [frame EXCEPT ![c].rule = @ + 1]
    /\ UNCHANGED <<policy, payload, op, args, pc, ret>>

\* _set_path_redacted, one assignment current[head] = redacted_value on the
\* shared object; a caller that has returned holds the same object and sees
\* the change
SetLeafOf(c) ==
    /\ pc[c] = "redact_field"
    /\ frame[c].rule <= Len(policy.field_redaction_rules)
    /\ RuleAppliesOf(c)
    /\ frame[c].done < Len(WritesOf(c))
    /\ payload' = _set_path_redacted_write(payload, WritesOf(c)[frame[c].done + 1],
                       PyStr(rule_apply_redaction(RuleOf(c), PyNone)))
    /\ frame' = [frame EXCEPT ![c].done = @ + 1]
    /\ ret' = [d \in Callers |-> IF pc[d] = "done" THEN payload' ELSE ret[d]]
    /\ UNCHANGED <<policy, op, args, pc>>

\* _set_path_redacted returns to redact_field, which goes on to the next rule
SetPathReturnsTo(c) ==
    /\ pc[c] = "redact_field"
    /\ frame[c].rule <= Len(policy.field_redaction_rules)
    /\ RuleAppliesOf(c)
    /\ frame[c].done >= Len(WritesOf(c))
    /\ frame' = [frame EXCEPT ![c].rule = @ + 1, ![c].done = 0]
    /\ UNCHANGED <<policy, payload, op, args, pc, ret>>

\* redact_field returns data to apply_obligations, which goes on to the next
\* obligation
RedactFieldReturnsTo(c) ==
    /\ pc[c] = "redact_field"
    /\ frame[c].rule > Len(policy.field_redaction_rules)
    /\ pc' = [pc EXCEPT ![c] = "apply_obligations"]
    /\ frame' = [frame EXCEPT ![c].k = @ + 1]
    /\ UNCHANGED <<policy, payload, op, args, ret>>

\* the loop is over: the shared object is returned
ReturnTo(c) ==
    /\ pc[c] = "apply_obligations"
    /\ frame[c].k > Len(frame[c].obligations)
    /\ ret' = [ret EXCEPT ![c] = payload]
    /\ pc' = [pc EXCEPT ![c] = "done"]
    /\ UNCHANGED <<policy, payload, op, args, frame>>

NextConcurrent ==
    \E c \in Callers :
        \/ ComputeObligationsOf(c)
        \/ ApplyObligationOf(c)
        \/ SkipRuleOf(c)
        \/ SetLeafOf(c)
        \/ SetPathReturnsTo(c)
        \/ RedactFieldReturnsTo(c)
        \/ ReturnTo(c)

SpecConcurrent == InitConcurrent /\ [][NextConcurrent]_vars

-----------------------------------------------------------------------------
(* The banner: one aggregate or evaluate_and_render call on any explored    *)
(* input                                                                     *)

\* readings of the clock
Clock == {"2026-01-01T00:00:00Z", "2026-01-01T00:00:01Z"}

\* values passed as signing_key: None, the empty str and keys, the str "None"
\* among them
SigningKeys ==
    {PyNone, PyStr(""), PyStr("demo-signing-key"), PyStr("test-signing-key-12345"),
     PyStr("None")}

\* entities aggregate is called on: members and codes, absent and null
\* classifications, absent and empty lists, a marking given as a member of a
\* str-Enum beside the str it is, markings and compartments given as the
\* keys of a dict
EntityPool ==
    {PyDict([classification |-> PyLevel("SECRET"),
             portion_markings |-> PyList(<<PyStr("//NOFORN")>>)]),
     PyDict([classification |-> PyStr("TS"),
             portion_markings |-> PyList(<<PyStr("//HUMINT"),
                                           PyCompartment("TALENT_KEYHOLE"),
                                           PyStr("TK")>>),
             compartments |-> PyList(<<PyStr("HUMINT")>>)]),
     PyDict([classification |-> PyLevel("UNCLASSIFIED"),
             portion_markings |-> PyList(<<>>)]),
     PyDict([classification |-> PyNone,
             portion_markings |-> PyDict(("//NOFORN" :> PyStr("//HUMINT"))
                                         @@ ("//NOCONTRACT" :> PyStr("TK"))),
             compartments |-> PyList(<<PyCompartment("TALENT_KEYHOLE"),
                                       PyCompartment("NOFORN")>>)]),
     PyDict("compartments" :> PyDict("SIGINT" :> PyCompartment("RUFF"))),
     PyDict([classification |-> PyLevel("CUI"), portion_markings |-> PyNone])}

InitAggregate ==
    /\ policy = EmptyPolicy
    /\ payload = PyNone
    /\ op = "aggregate"
    /\ args \in [entities : ListsUpTo(EntityPool, MaxEntities),
                  signing_key : SigningKeys]

\* the related alert of the demo endpoint
AlertDemo ==
    PyDict([id |-> PyStr("00000000-0000-0000-0000-0000000000a1"),
            classification |-> PyStr("TS"),
            portion_markings |-> PyList(<<PyStr("//HUMINT")>>),
            compartments |-> PyList(<<PyCompartment("HUMINT")>>),
            summary |-> PyStr("Related alert at higher classification (demo).")])

AlertPool ==
    {AlertDemo,
     PyDict([classification |-> PyStr("TS//SCI"),
             portion_markings |-> PyDict(("//NOFORN" :> PyStr("//HUMINT"))
                                         @@ ("//NOCONTRACT" :> PyStr("TK"))),
             compartments |-> PyList(<<PyCompartment("NOFORN")>>)]),
     PyDict("summary" :> PyStr("Alert without marking"))}

\* the payload of the demo endpoint
PayloadDemo ==
    PyDict([id |-> PyStr("00000000-0000-0000-0000-000000000001"),
            title |-> PyStr("Phishing Campaign (Demo)"),
            classification |-> PyStr("S"),
            portion_markings |-> PyList(<<PyStr("//NOFORN")>>),
            compartments |-> PyList(<<PyCompartment("NOFORN")>>),
            incident |-> PyDict("affected_users" :> PyList(
                <<PyDict([name |-> PyStr("Alice Smith"),
                          email |-> PyStr("alice@agency.gov")]),
                  PyDict([name |-> PyStr("Bob Jones"),
                          email |-> PyStr("bob@agency.gov")])>>)),
            related_alerts |-> PyList(<<AlertDemo>>)])

RenderPayloads ==
    {PyDict([PayloadDemo.v EXCEPT !["classification"] = PyStr(c),
                                  !["portion_markings"] = PyList(m),
                                  !["related_alerts"] = PyList(alerts)]) :
        c \in {"U", "S"},
        m \in {<<>>, <<PyStr("//NOFORN")>>},
        alerts \in ListsUpTo(AlertPool, MaxAlerts)}
    \cup {PayloadWildcard,
          PyDict([PayloadDemo.v EXCEPT !["related_alerts"] = PyNone])}

RenderArgs ==
    [user_clearance : {"CUI", "SECRET"},
     user_compartments : {<<>>, <<"NOFORN">>, <<"NOFORN", "HUMINT">>},
     user_roles : {<<"analyst">>},
     user_mfa_verified : {TRUE},
     user_account_suspended : BOOLEAN,
     device_posture : {"trusted", "untrusted"},
     session_active : BOOLEAN,
     resource_classification : {"UNCLASSIFIED", "SECRET"},
     resource_compartments : {<<"NOFORN">>},
     incident_payload : RenderPayloads,
     signing_key : {PyNone, PyStr(""), PyStr("demo-signing-key")}]

\* args.incident_payload is the payload as it is when passed in
InitEvaluateAndRender ==
    /\ policy = build_demo_policy
    /\ args \in RenderArgs
    /\ payload = args.incident_payload
    /\ op = "evaluate_and_render"

InitBanner ==
    /\ \/ InitAggregate
       \/ InitEvaluateAndRender
    /\ pc = "call"
    /\ ret = None
    /\ frame = None

Aggregate ==
    /\ op = "aggregate"
    /\ pc = "call"
    /\ \E now \in Clock : ret' = aggregate(args.entities, args.signing_key, now)
    /\ pc' = "done"
    /\ UNCHANGED <<policy, payload, op, args, frame>>

\* the payload object is rewritten in place and is the body of an allowed response
EvaluateAndRender ==
    /\ op = "evaluate_and_render"
    /\ pc = "call"
    /\ \E now \in Clock :
           LET r == evaluate_and_render(args, now)
           IN  /\ ret' = r.returned
               /\ payload' = r.incident_payload
    /\ pc' = "done"
    /\ UNCHANGED <<policy, op, args, frame>>

NextBanner ==
    \/ Aggregate
    \/ EvaluateAndRender

SpecBanner == InitBanner /\ [][NextBanner]_vars

-----------------------------------------------------------------------------
(* An entity: one update_timestamp, stable_fingerprint or compute_hash call  *)
(* on any explored AegisModel object.  args.self is the entity as it is when *)
(* the method is called, payload the object itself.                          *)

\* instants of created_at and updated_at, and readings of utcnow()
EntityClock == {"2026-01-01T00:00:00Z", "2026-01-02T12:30:00.250000Z"}

EntityIds ==
    {"00000000-0000-0000-0000-000000000001", "00000000-0000-0000-0000-000000000002"}

AegisModels ==
    {AegisModel(id, created_at, updated_at, classification, compartments,
                portion_markings, tenant_id) :
        id \in {"00000000-0000-0000-0000-000000000001"},
        created_at \in EntityClock,
        updated_at \in EntityClock,
        classification \in {"UNCLASSIFIED", "SECRET"},
        compartments \in {<<>>, <<"TALENT_KEYHOLE", "NOFORN">>},
        portion_markings \in {<<>>, <<"//NOFORN">>},
        tenant_id \in {None} \cup EntityIds}

\* values of the exclude argument
ExcludeSets ==
    {PyNone, PySet({}), PySet({"tenant_id"}),
     PySet({"classification", "compartments"}),
     PySet({"updated_at", "no_such_field"})}

InitEntity ==
    /\ policy = EmptyPolicy
    /\ payload \in AegisModels
    /\ \/ /\ op \in {"update_timestamp", "compute_hash"}
          /\ args = [self |-> payload]
       \/ /\ op = "stable_fingerprint"
          /\ args \in [self : {payload}, exclude : ExcludeSets]
    /\ pc = "call"
    /\ ret = None
    /\ frame = None

UpdateTimestamp ==
    /\ op = "update_timestamp"
    /\ pc = "call"
    /\ \E now \in EntityClock : payload' = update_timestamp(payload, now)
    /\ pc' = "done"
    /\ UNCHANGED <<policy, op, args, ret, frame>>

StableFingerprint ==
    /\ op = "stable_fingerprint"
    /\ pc = "call"
    /\ ret' = stable_fingerprint(payload, args.exclude)
    /\ pc' = "done"
    /\ UNCHANGED <<policy, payload, op, args, frame>>

ComputeHash ==
    /\ op = "compute_hash"
    /\ pc = "call"
    /\ ret' = compute_hash(payload)
    /\ pc' = "done"
    /\ UNCHANGED <<policy, payload, op, args, frame>>

NextEntity ==
    \/ UpdateTimestamp
    \/ StableFingerprint
    \/ ComputeHash

SpecEntity == InitEntity /\ [][NextEntity]_vars

-----------------------------------------------------------------------------
(* A policy built from one rule: FieldRedactionRule(...) is called on any    *)
(* explored keyword arguments; a rule that is constructed is appended to the *)
(* policy, as build_demo_policy does, and the engine of that policy redacts  *)
(* a payload.                                                                *)

\* values passed as field_path
FieldPathPool ==
    {PyStr(""), PyStr("user.email"), PyStr("user..email"), PyStr(".email"),
     PyStr("tags[*]"), PyStr("incident.affected_users[*].email"), PyNone,
     PyStr("None"), PyCompartment("NOFORN")}

\* values passed as field_type
FieldTypePool == {PyStr("email"), PyStr("string"), PyNone}

\* a payload with the keys None and NOFORN
PayloadNoneKey ==
    PyDict(("None" :> PyStr("secret value")) @@ ("NOFORN" :> PyStr("secret value"))
           @@ ("user" :> PyDict([email |-> PyStr("alice@agency.gov")])))

ConstructArgs ==
    [field_path : FieldPathPool,
     field_type : FieldTypePool,
     strategy : {"MASK_WITH_BRACKETS", "MASK_WITH_ASTERISKS"},
     required_clearance : {None, "SECRET"},
     required_compartments : {<<>>, <<"HUMINT">>},
     user_clearance : {"UNCLASSIFIED", "SECRET"},
     user_compartments : {<<>>}]

InitConstruct ==
    /\ policy = ClassificationPolicy("Demo Policy", <<>>, <<>>, TRUE)
    /\ payload \in {PayloadSimple, PayloadWildcard, PayloadNoneKey}
    /\ op = "FieldRedactionRule"
    /\ args \in ConstructArgs
    /\ pc = "call"
    /\ ret = None
    /\ frame = None

\* the constructor raises ValidationError
ConstructRaises ==
    /\ op = "FieldRedactionRule"
    /\ pc = "call"
    /\ ~FieldRedactionRule_validate(args)
    /\ ret' = "ValidationError"
    /\ pc' = "raised"
    /\ UNCHANGED <<policy, payload, op, args, frame>>

\* the constructor returns the rule, which is appended to the policy
ConstructAndAppend ==
    /\ op = "FieldRedactionRule"
    /\ pc = "call"
    /\ FieldRedactionRule_validate(args)
    /\ policy' = [policy EXCEPT !.field_redaction_rules =
                     Append(@, FieldRedactionRule(StrOf(args.field_path),
                                   StrOf(args.field_type), args.strategy,
                                   args.required_clearance,
                                   args.required_compartments))]
    /\ pc' = "constructed"
    /\ UNCHANGED <<payload, op, args, ret, frame>>

\* the engine of the policy redacts the payload for the subject
RedactWithPolicy ==
    /\ op = "FieldRedactionRule"
    /\ pc = "constructed"
    /\ payload' = apply_redaction(AccessControlEngine(policy, PyNone), payload,
                                  args.user_clearance, args.user_compartments)
    /\ ret' = payload'
    /\ pc' = "done"
    /\ UNCHANGED <<policy, op, args, frame>>

NextConstruct ==
    \/ ConstructRaises
    \/ ConstructAndAppend
    \/ RedactWithPolicy

SpecConstruct == InitConstruct /\ [][NextConstruct]_vars

-----------------------------------------------------------------------------
(* Vocabulary of the properties of the decision point *)

\* the str s starts with the str p
StartsWith(s, p) == Len(s) >= Len(p) /\ SubSeq(s, 1, Len(p)) = p

\* dominance rank of a classification level (specification section 3)
Rank ==
    [UNCLASSIFIED |-> 0, CUI |-> 1, CONFIDENTIAL |-> 2, SECRET |-> 3,
     TOP_SECRET |-> 4, TS_SCI |-> 5]

\* the compartment codes in ascending lexicographic order
CodesAscending == <<"HUMINT", "IMINT", "NOCONTRACT", "NOFORN", "RUFF", "SIGINT", "TK">>

\* make_access_decision has returned
Decided == op = "make_access_decision" /\ pc = "done"

AccountOk == ~args.user_account_suspended

SessionOk == args.session_active

ClearanceOk == Rank[args.user_clearance] >= Rank[args.resource_classification]

CompartmentsOk ==
    \A i \in 1..Len(args.resource_compartments) :
        \E j \in 1..Len(args.user_compartments) :
            args.user_compartments[j] = args.resource_compartments[i]

\* the need-to-know attributes are a non-empty map holding the key required_roles
HasRequiredRoles ==
    /\ args.resource_need_to_know_attrs.t = "dict"
    /\ "required_roles" \in DOMAIN args.resource_need_to_know_attrs.v

\* one of the subject's roles is among the required roles
SharesRequiredRole ==
    LET required == args.resource_need_to_know_attrs.v["required_roles"].v
    IN  \E i \in 1..Len(required) : \E j \in 1..Len(args.user_roles) :
            required[i] = args.user_roles[j]

\* outcome of the need-to-know check as the engine runs it: it fails only for a
\* non-empty list of required roles none of which the subject holds
NeedToKnowOk ==
    HasRequiredRoles =>
        \/ Len(args.resource_need_to_know_attrs.v["required_roles"].v) = 0
        \/ SharesRequiredRole

\* codes of the resource's compartments the subject lacks, ascending
MissingCodes ==
    LET Missing(code) ==
            \E i \in 1..Len(args.resource_compartments) :
                /\ CompartmentValue[args.resource_compartments[i]] = code
                /\ \A j \in 1..Len(args.user_compartments) :
                       args.user_compartments[j] # args.resource_compartments[i]
    IN  SelectSeq(CodesAscending, Missing)

-----------------------------------------------------------------------------
(* C1 *)

\* C1: make_access_decision allows if and only if the account is not suspended,
\* the session is active, the subject's clearance rank is at least the
\* resource's, the resource's compartments are all among the subject's and the
\* need-to-know check passes; an allowed decision carries the reason
\* "All access control checks passed".
C1_AllowedIffAllChecksPass ==
    Decided =>
        /\ ret.allowed <=>
               (AccountOk /\ SessionOk /\ ClearanceOk /\ CompartmentsOk /\ NeedToKnowOk)
        /\ ret.allowed => ret.reason = "All access control checks passed"

\* an allowed decision for a resource with compartments and required roles
C1_Witness ==
    /\ Decided
    /\ ret.allowed
    /\ Len(args.resource_compartments) > 0
    /\ HasRequiredRoles
    /\ SharesRequiredRole

\* C2: the denial reason is that of the earliest failing check in the order
\* account, session, clearance, compartments, need-to-know; a suspended account
\* always yields "User account is suspended".
C2_EarliestFailingCheckGivesReason ==
    Decided =>
        /\ ~AccountOk => ret.reason = "User account is suspended"
        /\ AccountOk /\ ~SessionOk => ret.reason = "Session is not active"
        /\ AccountOk /\ SessionOk /\ ~ClearanceOk =>
               StartsWith(ret.reason, "Insufficient clearance: ")
        /\ AccountOk /\ SessionOk /\ ClearanceOk /\ ~CompartmentsOk =>
               StartsWith(ret.reason, "Missing compartments: ")
        /\ AccountOk /\ SessionOk /\ ClearanceOk /\ CompartmentsOk /\ ~ret.allowed =>
               ret.reason = "Need-to-know denied"

\* an input failing all five checks, denied for the suspended account
C2_Witness ==
    /\ Decided
    /\ ~AccountOk /\ ~SessionOk /\ ~ClearanceOk /\ ~CompartmentsOk /\ ~NeedToKnowOk
    /\ ret.reason = "User account is suspended"

\* C3, as stated: for all inputs, a clearance rank below the resource's gives a
\* denial whose reason starts with "Insufficient clearance".
C3_AsStated ==
    Decided /\ ~ClearanceOk =>
        ~ret.allowed /\ StartsWith(ret.reason, "Insufficient clearance")

\* C3, amended: a clearance rank below the resource's always gives a denial;
\* its reason starts with "Insufficient clearance" when the account is not
\* suspended and the session is active.
C3_InsufficientClearanceDenied ==
    Decided /\ ~ClearanceOk =>
        /\ ~ret.allowed
        /\ AccountOk /\ SessionOk => StartsWith(ret.reason, "Insufficient clearance")

\* a denial at the clearance check
C3_Witness ==
    /\ Decided
    /\ AccountOk /\ SessionOk /\ ~ClearanceOk
    /\ ret.reason = "Insufficient clearance: user has S, resource requires TS"
    /\ StrIn("Insufficient clearance", ret.reason)

\* C4, as stated: for all inputs, a resource compartment the subject lacks
\* gives a denial whose reason is "Missing compartments" with exactly the
\* missing codes in ascending order.
C4_AsStated ==
    Decided /\ ~CompartmentsOk =>
        /\ ~ret.allowed
        /\ ret.reason = "Missing compartments: " \o Join(", ", MissingCodes)

\* C4, amended: a resource compartment the subject lacks always gives a denial;
\* when the account, session and clearance checks pass its reason is
\* "Missing compartments: " with exactly the missing codes in ascending order.
C4_MissingCompartmentsDenied ==
    Decided /\ ~CompartmentsOk =>
        /\ ~ret.allowed
        /\ AccountOk /\ SessionOk /\ ClearanceOk =>
               ret.reason = "Missing compartments: " \o Join(", ", MissingCodes)

\* a denial naming two missing compartments, given in descending order
C4_Witness ==
    /\ Decided
    /\ args.resource_compartments = <<"NOFORN", "NOCONTRACT">>
    /\ args.user_compartments = <<"HUMINT">>
    /\ ret.reason = "Missing compartments: NOCONTRACT, NOFORN"

\* C5: with checks 1-4 passed and need-to-know attributes holding the key
\* required_roles (an empty list included), the decision is a denial unless
\* the subject holds one of the required roles; with empty or absent
\* attributes the check passes.
C5_AsStated ==
    Decided /\ AccountOk /\ SessionOk /\ ClearanceOk /\ CompartmentsOk =>
        /\ HasRequiredRoles => (ret.allowed <=> SharesRequiredRole)
        /\ ~Truthy(args.resource_need_to_know_attrs) => ret.allowed

\* C6: the obligations of an allowed decision are, in this order, the device
\* step-up when the device is untrusted and the resource is SECRET or above,
\* the MFA step-up when the resource is SECRET or above and MFA is not
\* verified, and the audit obligation when the resource is CUI or above;
\* nothing else.
C6_ObligationsInOrder ==
    Decided /\ ret.allowed =>
        LET rank == Rank[args.resource_classification]
            brief == [i \in 1..Len(ret.obligations) |->
                         <<ret.obligations[i].obligation_type, ret.obligations[i].reason>>]
            expected ==
                (IF args.device_posture = "untrusted" /\ rank >= Rank["SECRET"]
                 THEN <<<<"REQUIRE_MFA_STEP_UP",
                          "Device is untrusted; Secret+ data requires additional MFA">>>>
                 ELSE <<>>)
                \o (IF rank >= Rank["SECRET"] /\ ~args.user_mfa_verified
                    THEN <<<<"REQUIRE_MFA_STEP_UP",
                             "Secret+ data requires MFA verification">>>>
                    ELSE <<>>)
                \o (IF rank >= Rank["CUI"]
                    THEN <<<<"AUDIT_ACCESS",
                             "Accessing " \o LevelValue[args.resource_classification]
                                 \o " data">>>>
                    ELSE <<>>)
        IN  brief = expected

\* an allowed decision carrying both step-up obligations and the audit one
C6_Witness ==
    /\ Decided
    /\ ret.allowed
    /\ args.device_posture = "untrusted"
    /\ ~args.user_mfa_verified
    /\ Len(ret.obligations) = 3
    /\ ret.obligations[1].obligation_type = "REQUIRE_MFA_STEP_UP"
    /\ ret.obligations[2].obligation_type = "REQUIRE_MFA_STEP_UP"
    /\ ret.obligations[3].obligation_type = "AUDIT_ACCESS"

\* C7: a decision never carries a MASK_FIELD or REDACT_PORTION obligation,
\* whatever rules the engine's policy holds.
C7_NoPolicyObligationsInDecision ==
    Decided =>
        \A i \in 1..Len(ret.obligations) :
            ret.obligations[i].obligation_type \notin {"MASK_FIELD", "REDACT_PORTION"}

\* an allowed decision for a subject for whom compute_obligations yields both a
\* MASK_FIELD and a REDACT_PORTION obligation
C7_Witness ==
    /\ Decided
    /\ ret.allowed
    /\ Len(ret.obligations) > 0
    /\ LET obls == compute_obligations(RedactionEngine(policy), args.user_clearance,
                                        args.user_compartments)
       IN  /\ \E i \in 1..Len(obls) : obls[i].obligation_type = "MASK_FIELD"
           /\ \E i \in 1..Len(obls) : obls[i].obligation_type = "REDACT_PORTION"

-----------------------------------------------------------------------------
(* Vocabulary of the properties of the redaction engine *)

\* a rule fires for a subject (specification section 4.2)
Fires(rule, user_clearance, user_compartments) ==
    \/ /\ rule.required_clearance # None
       /\ Rank[user_clearance] < Rank[rule.required_clearance]
    \/ /\ Len(rule.required_compartments) > 0
       /\ \E i \in 1..Len(rule.required_compartments) :
              \A j \in 1..Len(user_compartments) :
                  user_compartments[j] # rule.required_compartments[i]

\* a step of an address into a payload: into a map by key, or into a list by
\* position (idx = 0 marks a key step)
KeyStep(k) == [key |-> k, idx |-> 0]

IdxStep(i) == [key |-> "", idx |-> i]

\* a path segment: a literal key, or the list wildcard key[*]
Lit(k) == [key |-> k, wild |-> FALSE]

Wild(k) == [key |-> k, wild |-> TRUE]

\* the segments of the dotted paths of the explored rules
Segments ==
    ("user" :> <<Lit("user")>>)
    @@ ("user.email" :> <<Lit("user"), Lit("email")>>)
    @@ ("user.name" :> <<Lit("user"), Lit("name")>>)
    @@ ("user.ssn" :> <<Lit("user"), Lit("ssn")>>)
    @@ ("tags[*]" :> <<Wild("tags")>>)
    @@ ("incident.affected_users[*].email" :>
            <<Lit("incident"), Wild("affected_users"), Lit("email")>>)

\* every address of a payload value, the root <<>> included
RECURSIVE Addresses(_)
Addresses(x) ==
    {<<>>} \cup
    (IF x.t = "dict"
     THEN UNION {{<<KeyStep(k)>> \o a : a \in Addresses(x.v[k])} : k \in DOMAIN x.v}
     ELSE IF x.t = "list"
     THEN UNION {{<<IdxStep(i)>> \o a : a \in Addresses(x.v[i])} : i \in 1..Len(x.v)}
     ELSE {})

\* the address exists in the value
RECURSIVE Has(_, _)
Has(x, a) ==
    IF Len(a) = 0 THEN TRUE
    ELSE IF a[1].idx = 0
    THEN x.t = "dict" /\ a[1].key \in DOMAIN x.v /\ Has(x.v[a[1].key], Tail(a))
    ELSE x.t = "list" /\ a[1].idx <= Len(x.v) /\ Has(x.v[a[1].idx], Tail(a))

\* the value at an address that exists
RECURSIVE At(_, _)
At(x, a) ==
    IF Len(a) = 0 THEN x
    ELSE IF a[1].idx = 0 THEN At(x.v[a[1].key], Tail(a))
    ELSE At(x.v[a[1].idx], Tail(a))

\* the addresses a path resolves to: its last segment is a literal key present
\* in a map, reached through maps by literal keys and through every element
\* of a list by a wildcard segment
RECURSIVE Targets(_, _)
Targets(x, segs) ==
    IF Len(segs) = 0 THEN {}
    ELSE IF x.t # "dict" THEN {}
    ELSE IF segs[1].key \notin DOMAIN x.v THEN {}
    ELSE LET k == segs[1].key
         IN  IF segs[1].wild
             THEN IF x.v[k].t # "list" THEN {}
                  ELSE UNION {{<<KeyStep(k), IdxStep(i)>> \o a :
                                  a \in Targets(x.v[k].v[i], Tail(segs))} :
                              i \in 1..Len(x.v[k].v)}
             ELSE IF Len(segs) = 1 THEN {<<KeyStep(k)>>}
             ELSE {<<KeyStep(k)>> \o a : a \in Targets(x.v[k], Tail(segs))}

\* address a is b or lies below b
AtOrBelow(a, b) == Len(b) <= Len(a) /\ SubSeq(a, 1, Len(b)) = b

\* apply_redaction has returned
Redacted == op = "apply_redaction" /\ pc = "done"

\* positions of the policy's field rules that fire for the subject of the call
FiringRules ==
    {i \in 1..Len(policy.field_redaction_rules) :
        Fires(policy.field_redaction_rules[i], args.user_clearance,
              args.user_compartments)}

\* addresses in the payload passed in that rule i resolves to
TargetsOf(i) == Targets(args.data, Segments[policy.field_redaction_rules[i].field_path])

\* address a of the payload passed in is not at or below a firing rule's target
Untouched(a) ==
    \A i \in FiringRules : \A b \in TargetsOf(i) : ~AtOrBelow(a, b)

\* address a holds in the result what it held in the payload passed in: the same
\* leaf, a map with the same keys or a list of the same length
Kept(a) ==
    /\ Has(ret, a)
    /\ At(ret, a).t = At(args.data, a).t
    /\ At(args.data, a).t \in {"str", "NoneType"} => At(ret, a) = At(args.data, a)
    /\ At(args.data, a).t = "dict" => DOMAIN At(ret, a).v = DOMAIN At(args.data, a).v
    /\ At(args.data, a).t = "list" => Len(At(ret, a).v) = Len(At(args.data, a).v)

\* every address no firing rule resolves to keeps its value
FrameKept == \A a \in Addresses(args.data) : Untouched(a) => Kept(a)

-----------------------------------------------------------------------------
(* C8 - C10 *)

\* C8: for a policy that is not enforced compute_obligations returns no
\* MASK_FIELD and no REDACT_PORTION obligation, for every subject.
C8_AsStated ==
    op = "compute_obligations" /\ pc = "done" /\ ~policy.is_enforced =>
        \A i \in 1..Len(ret) :
            ret[i].obligation_type \notin {"MASK_FIELD", "REDACT_PORTION"}

\* C9: should_redact returns true if and only if the required clearance is set
\* and above the subject's, or the required compartments are non-empty and not
\* all among the subject's; a rule with neither requirement never fires.
C9_ShouldRedactEitherUnsatisfied ==
    op = "should_redact" /\ pc = "done" =>
        /\ ret <=> Fires(args.self, args.user_clearance, args.user_compartments)
        /\ (args.self.required_clearance = None
               /\ Len(args.self.required_compartments) = 0) => ~ret

\* a rule with both requirements fires for a subject who meets the clearance
\* but lacks a compartment
C9_Witness ==
    /\ op = "should_redact" /\ pc = "done"
    /\ args.self.required_clearance = "SECRET"
    /\ args.self.required_compartments = <<"HUMINT">>
    /\ args.user_clearance = "TOP_SECRET"
    /\ args.user_compartments = <<"NOFORN">>
    /\ ret = TRUE

\* C10, as stated: every leaf a firing MASK_WITH_BRACKETS rule resolves to holds
\* "[REDACTED]" in the result, and every key not on a firing rule's path keeps
\* its value.
C10_AsStated ==
    Redacted =>
        /\ \A i \in FiringRules :
               policy.field_redaction_rules[i].strategy = "MASK_WITH_BRACKETS" =>
                   \A a \in TargetsOf(i) :
                       At(args.data, a).t = "str" =>
                           Has(ret, a) /\ At(ret, a) = PyStr("[REDACTED]")
        /\ FrameKept

\* no firing rule declared after rule i masks the leaf at a with another
\* strategy, and no firing rule resolves to a map enclosing the leaf
Unrivalled(i, a) ==
    /\ \A j \in FiringRules :
           (j > i /\ a \in TargetsOf(j)) =>
               policy.field_redaction_rules[j].strategy = "MASK_WITH_BRACKETS"
    /\ \A j \in FiringRules : \A b \in TargetsOf(j) : b # a => ~AtOrBelow(a, b)

\* C10, amended: a leaf a firing MASK_WITH_BRACKETS rule resolves to holds
\* "[REDACTED]" in the result unless a firing rule declared later masks the
\* same leaf with another strategy or a firing rule resolves to a map
\* enclosing the leaf; every key not on a firing rule's path keeps its value.
C10_MaskBracketsLeafAndFrame ==
    Redacted =>
        /\ \A i \in FiringRules :
               policy.field_redaction_rules[i].strategy = "MASK_WITH_BRACKETS" =>
                   \A a \in TargetsOf(i) :
                       (At(args.data, a).t = "str" /\ Unrivalled(i, a)) =>
                           Has(ret, a) /\ At(ret, a) = PyStr("[REDACTED]")
        /\ FrameKept

\* the wildcard rule has masked the e-mail of the first and last user of the
\* mixed payload; the names, the other list elements and the tags are kept
C10_Witness ==
    /\ Redacted
    /\ args.data = PayloadMixed
    /\ \E i \in FiringRules :
           policy.field_redaction_rules[i].field_path = "incident.affected_users[*].email"
    /\ LET users == ret.v["incident"].v["affected_users"].v
       IN  /\ users[1].v["email"] = PyStr("[REDACTED]")
           /\ users[4].v["email"] = PyStr("[REDACTED]")
           /\ users[1].v["name"] = PyStr("A")
           /\ users[2] = PyStr("n/a")
           /\ users[3] = PyDict("name" :> PyStr("B"))
    /\ ret.v["tags"] = PayloadMixed.v["tags"]

-----------------------------------------------------------------------------
(* C11 - C15 *)

\* the text a masking strategy leaves at a leaf
MaskText ==
    [MASK_WITH_BRACKETS |-> "[REDACTED]", MASK_WITH_ASTERISKS |-> "****",
     MASK_WITH_HASH |-> "#####"]

\* the path of rule i has a list wildcard segment
HasWildcard(i) ==
    LET segs == Segments[policy.field_redaction_rules[i].field_path]
    IN  \E k \in 1..Len(segs) : segs[k].wild

\* the values found at the keys of the wildcard segments of a path
RECURSIVE ListSites(_, _)
ListSites(x, segs) ==
    IF Len(segs) = 0 THEN {}
    ELSE IF x.t # "dict" THEN {}
    ELSE IF segs[1].key \notin DOMAIN x.v THEN {}
    ELSE LET site == x.v[segs[1].key]
         IN  IF ~segs[1].wild THEN ListSites(site, Tail(segs))
             ELSE {site} \cup
                  (IF site.t # "list" THEN {}
                   ELSE UNION {ListSites(site.v[i], Tail(segs)) : i \in 1..Len(site.v)})

\* the key of a wildcard segment of rule i holds a value that is not a list
WildcardOnNonList(i) ==
    \E site \in ListSites(args.data, Segments[policy.field_redaction_rules[i].field_path]) :
        site.t # "list"

\* the policy without its field rule i
PolicyWithout(i) ==
    [policy EXCEPT !.field_redaction_rules =
        SubSeq(policy.field_redaction_rules, 1, i - 1)
            \o SubSeq(policy.field_redaction_rules, i + 1,
                      Len(policy.field_redaction_rules))]

\* C11: for a firing rule whose path has a segment key[*], the rest of the path
\* is masked in every element of the list at key it resolves in, whether or not
\* it resolves in the elements before; when key holds a value that is not a
\* list the result is what the policy without the rule gives, and the payload
\* is returned unchanged when no other rule resolves.
C11_WildcardVisitsEveryElement ==
    Redacted =>
        \A i \in FiringRules :
            HasWildcard(i) =>
                /\ \A a \in TargetsOf(i) :
                       /\ Has(ret, a)
                       /\ At(ret, a) =
                              PyStr(MaskText[policy.field_redaction_rules[i].strategy])
                /\ WildcardOnNonList(i) =>
                       /\ ret = apply_redaction(AccessControlEngine(PolicyWithout(i), PyNone),
                                                args.data, args.user_clearance,
                                                args.user_compartments)
                       /\ (\A j \in FiringRules : TargetsOf(j) = {}) => ret = args.data

\* the wildcard rule has masked the e-mail of the fourth user of the mixed
\* payload although the path resolves in neither the second nor the third
\* element, which are returned as they were
C11_Witness ==
    /\ Redacted
    /\ args.data = PayloadMixed
    /\ \E i \in FiringRules : HasWildcard(i) /\ Cardinality(TargetsOf(i)) = 2
    /\ LET before == args.data.v["incident"].v["affected_users"].v
           after == ret.v["incident"].v["affected_users"].v
       IN  /\ Len(after) = 4
           /\ after[2] = before[2]
           /\ after[3] = before[3]
           /\ before[4].v["email"] = PyStr("c@x")
           /\ after[4].v["email"] = PyStr("[REDACTED]")

\* rule i is the only firing rule resolving to the address a or to a map
\* enclosing it
Sole(i, a) ==
    \A j \in FiringRules \ {i} : \A b \in TargetsOf(j) : ~AtOrBelow(a, b)

\* the first three characters, "..." and the last three characters of a string
Truncated(s) == SubSeq(s, 1, 3) \o "..." \o SubSeq(s, Len(s) - 2, Len(s))

\* C12: a leaf a firing TRUNCATE rule resolves to becomes its first 3
\* characters, "..." and its last 3 characters when it is a string longer than
\* 6 characters, and "[REDACTED]" otherwise.
C12_AsStated ==
    Redacted =>
        \A i \in FiringRules :
            policy.field_redaction_rules[i].strategy = "TRUNCATE" =>
                \A a \in TargetsOf(i) :
                    Sole(i, a) =>
                        LET leaf == At(args.data, a)
                        IN  /\ Has(ret, a)
                            /\ At(ret, a) =
                                   IF leaf.t = "str" /\ Len(leaf.v) > 6
                                   THEN PyStr(Truncated(leaf.v))
                                   ELSE PyStr("[REDACTED]")

\* C13: the key of a leaf a firing REMOVE_FIELD rule resolves to is absent from
\* its enclosing map in the result.
C13_AsStated ==
    Redacted =>
        \A i \in FiringRules :
            policy.field_redaction_rules[i].strategy = "REMOVE_FIELD" =>
                \A a \in TargetsOf(i) : Sole(i, a) => ~Has(ret, a)

\* C14: after apply_redaction the payload object the caller passed in holds
\* the keys and values it held before the call.
C14_AsStated == Redacted => payload = args.data

\* C15: when two callers run apply_redaction on the same payload, in either
\* order or interleaved, the result each caller holds once it has returned is
\* what a single call for its subject gives on the payload as it was before
\* both calls.
C15_AsStated ==
    \A c \in DOMAIN pc :
        pc[c] = "done" =>
            ret[c] = apply_redaction(AccessControlEngine(policy, PyNone), args[c].data,
                                     args[c].user_clearance, args[c].user_compartments)

-----------------------------------------------------------------------------
(* Vocabulary of the properties of the banner *)

\* the classification level of an external code (specification section 3)
LevelOfCode ==
    ("U" :> "UNCLASSIFIED") @@ ("CUI" :> "CUI") @@ ("C" :> "CONFIDENTIAL")
    @@ ("S" :> "SECRET") @@ ("TS" :> "TOP_SECRET") @@ ("TS//SCI" :> "TS_SCI")

\* the compartment of a code
CompartmentOfCode ==
    ("NOFORN" :> "NOFORN") @@ ("NOCONTRACT" :> "NOCONTRACT") @@ ("HUMINT" :> "HUMINT")
    @@ ("SIGINT" :> "SIGINT") @@ ("IMINT" :> "IMINT") @@ ("TK" :> "TALENT_KEYHOLE")
    @@ ("RUFF" :> "RUFF")

\* the portion markings of the explored entities in ascending order
MarkingsAscending == <<"//HUMINT", "//NOCONTRACT", "//NOFORN", "TK">>

\* aggregate has returned
Aggregated == op = "aggregate" /\ pc = "done"

\* evaluate_and_render has returned
Rendered == op = "evaluate_and_render" /\ pc = "done"

\* the classification an entity carries, None when it carries none
EntityLevel(e) ==
    IF "classification" \notin DOMAIN e.v THEN None
    ELSE IF e.v["classification"].t = "NoneType" THEN None
    ELSE IF e.v["classification"].t = "ClassificationLevel" THEN e.v["classification"].v
    ELSE LevelOfCode[e.v["classification"].v]

\* the texts an entity gives under key: the elements of a list (a member of a
\* str-Enum counts as its code), the keys of a map, none when the key is
\* absent or null
TextsUnder(e, key) ==
    IF key \notin DOMAIN e.v THEN {}
    ELSE LET x == e.v[key]
         IN  IF x.t = "list"
             THEN {(IF x.v[i].t = "ClassificationLevel" THEN LevelValue[x.v[i].v]
                    ELSE IF x.v[i].t = "Compartment" THEN CompartmentValue[x.v[i].v]
                    ELSE x.v[i].v) : i \in 1..Len(x.v)}
             ELSE IF x.t = "dict" THEN DOMAIN x.v
             ELSE {}

\* the portion markings an entity carries
EntityMarkings(e) == TextsUnder(e, "portion_markings")

\* the compartments an entity carries
EntityCompartments(e) ==
    {CompartmentOfCode[code] : code \in TextsUnder(e, "compartments")}

\* the highest rank among the classifications of a list of entities, 0 for none
HighestRank(es) ==
    LET ranks == {Rank[EntityLevel(es[i])] :
                     i \in {j \in 1..Len(es) : EntityLevel(es[j]) # None}}
    IN  IF ranks = {} THEN 0 ELSE CHOOSE r \in ranks : \A q \in ranks : r >= q

\* what the signature may depend on: the highest classification, the portion
\* markings, the compartments and the number of entities
Summary(es) ==
    [highest |-> HighestRank(es),
     markings |-> UNION {EntityMarkings(es[i]) : i \in 1..Len(es)},
     compartments |-> UNION {EntityCompartments(es[i]) : i \in 1..Len(es)},
     count |-> Len(es)]

\* the entity lists explored, each with its summary and the signature
\* aggregate gives it under each key
SignedSummaries ==
    {[entities |-> es,
      summary |-> Summary(es),
      signature |-> [key \in SigningKeys |->
                        aggregate(es, key, CHOOSE now \in Clock : TRUE).signature]] :
        es \in ListsUpTo(EntityPool, MaxEntities)}

\* the number of times x occurs in the list xs
Occurrences(xs, x) == Cardinality({i \in 1..Len(xs) : xs[i] = x})

\* the lists xs and ys are permutations of each other
IsPermutation(xs, ys) ==
    /\ Len(xs) = Len(ys)
    /\ \A x \in ToSet(xs) \cup ToSet(ys) : Occurrences(xs, x) = Occurrences(ys, x)

-----------------------------------------------------------------------------
(* C16 - C20 *)

\* C16: the rank of the highest classification aggregate returns is at least
\* the rank of every classification in the entities, and it is UNCLASSIFIED if
\* and only if every entity is unclassified or carries no classification (an
\* empty list included).
C16_HighestDominatesEveryEntity ==
    Aggregated =>
        /\ \A i \in 1..Len(args.entities) :
               EntityLevel(args.entities[i]) # None =>
                   Rank[ret.highest_classification] >= Rank[EntityLevel(args.entities[i])]
        /\ ret.highest_classification = "UNCLASSIFIED" <=>
               \A i \in 1..Len(args.entities) :
                   EntityLevel(args.entities[i]) \in {None, "UNCLASSIFIED"}

\* three entities, the highest classification given as a code by the second
C16_Witness ==
    /\ Aggregated
    /\ Len(args.entities) = 3
    /\ EntityLevel(args.entities[1]) = "SECRET"
    /\ EntityLevel(args.entities[2]) = "TOP_SECRET"
    /\ args.entities[2].v["classification"].t = "str"
    /\ EntityLevel(args.entities[3]) = "UNCLASSIFIED"
    /\ ret.highest_classification = "TOP_SECRET"

\* C17: under one key, entity lists with the same highest classification,
\* portion markings, compartments and count get the same signature; so do the
\* permutations of a list, and the signature is the same at every clock
\* reading.
C17_SignatureDependsOnSummaryOnly ==
    (Aggregated /\ ret.signature # PyNone) =>
        LET mine == Summary(args.entities)
        IN  /\ \A other \in SignedSummaries :
                   other.summary = mine =>
                       other.signature[args.signing_key] = ret.signature
            /\ \A other \in SignedSummaries :
                   IsPermutation(other.entities, args.entities) =>
                       other.signature[args.signing_key] = ret.signature
            /\ \A now \in Clock :
                   aggregate(args.entities, args.signing_key, now).signature
                       = ret.signature

\* a signed aggregation of three entities, one of them giving its markings as
\* the keys of a map, whose reversal lists the classifications in another
\* order and gets the same signature
C17_Witness ==
    /\ Aggregated
    /\ ret.signature # PyNone
    /\ Len(args.entities) = 3
    /\ LET reversed == <<args.entities[3], args.entities[2], args.entities[1]>>
           other == aggregate(reversed, args.signing_key, ret.computed_at)
       IN  /\ other.all_classifications # ret.all_classifications
           /\ other.signature = ret.signature
    /\ ret.all_portion_markings = <<"//HUMINT", "//NOCONTRACT", "//NOFORN", "TK">>
    /\ \E i \in 1..3 : /\ "portion_markings" \in DOMAIN args.entities[i].v
                       /\ args.entities[i].v["portion_markings"].t = "dict"
    /\ Len(ret.all_compartments) = 3

\* C18: aggregate stores a signature exactly when a signing key is given, the
\* empty string included, and an allowed response of evaluate_and_render has
\* the header X-Classification-Signature exactly when a signing key is given.
C18_AsStated ==
    /\ Aggregated => (ret.signature # PyNone <=> args.signing_key # PyNone)
    /\ (Rendered /\ ret.allowed) =>
           ("X-Classification-Signature" \in DOMAIN ret.headers
                <=> args.signing_key # PyNone)

\* the reason of the denial the order of the checks gives; evaluate_and_render
\* passes no need-to-know attributes
ExpectedDenialReason ==
    IF ~AccountOk THEN "User account is suspended"
    ELSE IF ~SessionOk THEN "Session is not active"
    ELSE IF ~ClearanceOk
    THEN "Insufficient clearance: user has " \o LevelValue[args.user_clearance]
             \o ", resource requires " \o LevelValue[args.resource_classification]
    ELSE "Missing compartments: " \o Join(", ", MissingCodes)

\* C19: when a check fails evaluate_and_render returns allowed = false, the
\* reason of the denial, no header and the body {"error": reason}, and the
\* payload is as it was passed in.
C19_DenialRendersErrorOnly ==
    (Rendered /\ ~(AccountOk /\ SessionOk /\ ClearanceOk /\ CompartmentsOk)) =>
        /\ ret.allowed = FALSE
        /\ ret.reason = ExpectedDenialReason
        /\ DOMAIN ret.headers = {}
        /\ ret.body = PyDict("error" :> PyStr(ret.reason))
        /\ payload = args.incident_payload

\* a denial for a missing compartment of a subject the demo rule fires for: the
\* e-mail addresses of the payload are not masked
C19_Witness ==
    /\ Rendered
    /\ ret.allowed = FALSE
    /\ ret.reason = "Missing compartments: NOFORN"
    /\ ret.body.v["error"] = PyStr("Missing compartments: NOFORN")
    /\ args.signing_key = PyStr("demo-signing-key")
    /\ "related_alerts" \in DOMAIN payload.v
    /\ payload.v["incident"].v["affected_users"].v[1].v["email"] = PyStr("alice@agency.gov")

\* the returned payload followed by its related alerts
ReturnedEntities ==
    <<ret.body>> \o
        (IF "related_alerts" \in DOMAIN ret.body.v /\ ret.body.v["related_alerts"].t = "list"
         THEN ret.body.v["related_alerts"].v
         ELSE <<>>)

\* the level of the highest rank among the returned entities; an entity
\* without classification counts as UNCLASSIFIED
ReturnedHighest ==
    CHOOSE l \in ClassificationLevel : Rank[l] = HighestRank(ReturnedEntities)

\* C20: an allowed response has X-Classification equal to the code of the
\* highest classification among the returned payload and its related alerts,
\* and X-Portion-Markings equal to their portion markings, each once, in
\* ascending order, joined by commas.
C20_BannerHeaders ==
    (Rendered /\ ret.allowed) =>
        /\ ret.headers["X-Classification"] = LevelValue[ReturnedHighest]
        /\ LET Carried(m) == \E i \in 1..Len(ReturnedEntities) :
                                 m \in EntityMarkings(ReturnedEntities[i])
           IN  ret.headers["X-Portion-Markings"]
                   = Join(",", SelectSeq(MarkingsAscending, Carried))

\* an allowed response for an unclassified payload with two related alerts: the
\* banner is that of the second alert, and the markings of the payload and the
\* alerts appear once each; the second alert gives its markings as the keys of
\* a map
C20_Witness ==
    /\ Rendered
    /\ ret.allowed
    /\ "classification" \in DOMAIN ret.body.v
    /\ ret.body.v["classification"] = PyStr("U")
    /\ Len(ret.body.v["related_alerts"].v) = 2
    /\ ret.body.v["related_alerts"].v[1] = AlertDemo
    /\ ret.headers["X-Classification"] = "TS//SCI"
    /\ ret.body.v["related_alerts"].v[2].v["portion_markings"].t = "dict"
    /\ ret.body.v["portion_markings"] = PyList(<<PyStr("//NOFORN")>>)
    /\ ret.headers["X-Portion-Markings"] = "//HUMINT,//NOCONTRACT,//NOFORN"

-----------------------------------------------------------------------------
(* C21 *)

\* the fields stable_fingerprint covers when called with exclude
Covered(exclude) ==
    ToSet(AegisModelFields)
        \ ((IF exclude = PyNone THEN {} ELSE exclude.v)
               \cup {"created_at", "updated_at"})

\* C21: stable_fingerprint is the same for two entities exactly when they
\* agree on every field other than created_at, updated_at and the fields named
\* in exclude; compute_hash is the same for two entities only when they agree
\* on every field, timestamps included; update_timestamp changes at most
\* updated_at, keeps stable_fingerprint for every exclude and changes
\* compute_hash whenever it changes updated_at.
C21_FingerprintIgnoresTimestamps ==
    /\ (op = "stable_fingerprint" /\ pc = "done") =>
           \A e \in AegisModels :
               (stable_fingerprint(e, args.exclude) = ret)
                   <=> (\A f \in Covered(args.exclude) : e[f] = args.self[f])
    /\ (op = "compute_hash" /\ pc = "done") =>
           \A e \in AegisModels : (compute_hash(e) = ret) <=> (e = args.self)
    /\ (op = "update_timestamp" /\ pc = "done") =>
           /\ \A f \in ToSet(AegisModelFields) \ {"updated_at"} :
                  payload[f] = args.self[f]
           /\ \A exclude \in ExcludeSets :
                  stable_fingerprint(payload, exclude)
                      = stable_fingerprint(args.self, exclude)
           /\ payload.updated_at # args.self.updated_at
                  => compute_hash(payload) # compute_hash(args.self)

\* update_timestamp has moved updated_at of an entity: the entity before and
\* the entity after have one stable_fingerprint and two compute_hash values
C21_Witness ==
    /\ op = "update_timestamp"
    /\ pc = "done"
    /\ payload.updated_at # args.self.updated_at
    /\ payload.tenant_id # None
    /\ stable_fingerprint(payload, PyNone) = stable_fingerprint(args.self, PyNone)
    /\ compute_hash(payload) # compute_hash(args.self)

-----------------------------------------------------------------------------
(* C22 *)

\* a segment of a dotted path: a key, or key[*], with a key that is not empty
ValidSegment(seg) ==
    /\ Len(seg) > 0
    /\ seg # "[*]"

\* a dotted path: a str of at least one segment, each of them valid
ValidDottedPath(path) ==
    /\ IsStr(path)
    /\ Len(StrOf(path)) > 0
    /\ \A seg \in ToSet(Split(StrOf(path), ".")) : ValidSegment(seg)

\* C22 as stated: a rule whose field_path is not a valid dotted path is
\* rejected when it is constructed, so no policy ever holds such a rule and
\* the engine never redacts under one.
C22_AsStated ==
    (op = "FieldRedactionRule" /\ ~ValidDottedPath(args.field_path))
        => /\ pc \in {"call", "raised"}
           /\ \A i \in 1..Len(policy.field_redaction_rules) :
                  policy.field_redaction_rules[i].field_path # StrOf(args.field_path)

-----------------------------------------------------------------------------
(* C23 *)

\* the call with the compartment lists replaced by u and r
WithCompartments(u, r) ==
    [args EXCEPT !.user_compartments = u, !.resource_compartments = r]

\* C23: when the account, session and clearance checks pass and the resource
\* has a compartment the subject lacks, the reason is "Missing compartments: "
\* followed by the codes of the compartments in the resource's set and not in
\* the subject's set, each once, ascending, separated by ", "; and the call
\* returns the same decision outcome and reason for any other lists holding
\* the same sets of compartments.
C23_MissingCodesOnceAscending ==
    (Decided /\ AccountOk /\ SessionOk /\ ClearanceOk /\ ~CompartmentsOk) =>
        /\ ~ret.allowed
        /\ LET missing == {CompartmentValue[c] :
                              c \in ToSet(args.resource_compartments)
                                        \ ToSet(args.user_compartments)}
               IsMissing(code) == code \in missing
           IN  ret.reason = "Missing compartments: "
                                \o Join(", ", SelectSeq(CodesAscending, IsMissing))
        /\ \A u, r \in ListsUpTo(CompartmentPool3, MaxCompList) :
               (/\ ToSet(u) = ToSet(args.user_compartments)
                /\ ToSet(r) = ToSet(args.resource_compartments))
               => LET other == make_access_decision(AccessControlEngine(policy, PyNone),
                                                    WithCompartments(u, r))
                  IN  /\ other.allowed = ret.allowed
                      /\ other.reason = ret.reason

\* a denial for a resource that lists the one missing compartment twice: the
\* reason names it once
C23_Witness ==
    /\ Decided
    /\ AccountOk /\ SessionOk /\ ClearanceOk
    /\ args.resource_compartments = <<"NOFORN", "NOFORN">>
    /\ args.user_compartments = <<"HUMINT">>
    /\ ret.reason = "Missing compartments: NOFORN"

-----------------------------------------------------------------------------
(* C24 *)

\* the value x with the value at the address a, which exists, replaced by v
RECURSIVE SetAt(_, _, _)
SetAt(x, a, v) ==
    IF Len(a) = 0 THEN v
    ELSE IF a[1].idx = 0
    THEN PyDict([x.v EXCEPT ![a[1].key] = SetAt(x.v[a[1].key], Tail(a), v)])
    ELSE PyList([x.v EXCEPT ![a[1].idx] = SetAt(x.v[a[1].idx], Tail(a), v)])

\* the value x with the value at each address of the set A replaced by v
RECURSIVE SetAll(_, _, _)
SetAll(x, A, v) ==
    IF A = {} THEN x
    ELSE LET a == CHOOSE a \in A : TRUE
         IN  SetAll(SetAt(x, a, v), A \ {a}, v)

\* the text the engine writes for a rule: that of a masking strategy, and
\* "[REDACTED]" for the other strategies
WrittenText(rule) ==
    IF rule.strategy \in DOMAIN MaskText THEN MaskText[rule.strategy]
    ELSE "[REDACTED]"

\* the payload after rule alone has been applied to data: every address its
\* path resolves to in data holds the text written for the rule
AppliedOnce(rule, data) ==
    SetAll(data, Targets(data, Segments[rule.field_path]), PyStr(WrittenText(rule)))

\* the payload after each firing rule from position k on has been applied
\* once, in declaration order, each to the result of the one before
RECURSIVE EachFiringRuleOnce(_, _)
EachFiringRuleOnce(k, data) ==
    IF k > Len(policy.field_redaction_rules) THEN data
    ELSE EachFiringRuleOnce(k + 1,
             IF k \in FiringRules
             THEN AppliedOnce(policy.field_redaction_rules[k], data)
             ELSE data)

\* C24: the payload apply_redaction returns is the payload obtained by
\* applying each firing field rule once, in declaration order, to the result
\* of the rules before it.
C24_EachFiringRuleOnceInOrder ==
    Redacted => ret = EachFiringRuleOnce(1, args.data)

\* two firing rules share the path user.email: the leaf holds the text of the
\* second rule
C24_Witness ==
    /\ Redacted
    /\ FiringRules = {1, 2}
    /\ policy.field_redaction_rules[1].field_path = "user.email"
    /\ policy.field_redaction_rules[2].field_path = "user.email"
    /\ policy.field_redaction_rules[1].strategy = "MASK_WITH_BRACKETS"
    /\ policy.field_redaction_rules[2].strategy = "MASK_WITH_ASTERISKS"
    /\ "user" \in DOMAIN args.data.v
    /\ args.data.v["user"].t = "dict"
    /\ args.data.v["user"].v["email"] = PyStr("alice@agency.gov")
    /\ ret.v["user"].v["email"] = PyStr("****")

-----------------------------------------------------------------------------
(* C25 *)

\* the path of rule i resolves nowhere in the payload passed in: a key is
\* missing, or a value on the way is not the map or the list the next segment
\* needs
Unresolved(i) == TargetsOf(i) = {}

\* the elements of the lists at the wildcard segments of a path in which the
\* rest of the path resolves nowhere, as addresses
RECURSIVE UnresolvedElements(_, _)
UnresolvedElements(x, segs) ==
    IF Len(segs) = 0 THEN {}
    ELSE IF x.t # "dict" THEN {}
    ELSE IF segs[1].key \notin DOMAIN x.v THEN {}
    ELSE LET k == segs[1].key
         IN  IF ~segs[1].wild
             THEN {<<KeyStep(k)>> \o a : a \in UnresolvedElements(x.v[k], Tail(segs))}
             ELSE IF x.v[k].t # "list" THEN {}
             ELSE UNION {IF Targets(x.v[k].v[i], Tail(segs)) = {}
                         THEN {<<KeyStep(k), IdxStep(i)>>}
                         ELSE {<<KeyStep(k), IdxStep(i)>> \o a :
                                  a \in UnresolvedElements(x.v[k].v[i], Tail(segs))} :
                         i \in 1..Len(x.v[k].v)}

\* C25: apply_redaction returns a payload whatever the shape of the payload
\* passed in; a firing rule whose path resolves nowhere has no effect, the
\* result being the one the other rules of the policy give; and a list element
\* in which the rest of a wildcard path does not resolve is returned as it was
\* unless another firing rule resolves inside it.
C25_UnresolvedPathSkipped ==
    Redacted =>
        /\ ret.t = "dict"
        /\ DOMAIN ret.v = DOMAIN args.data.v
        /\ \A i \in FiringRules :
               /\ Unresolved(i) =>
                      ret = apply_redaction(AccessControlEngine(PolicyWithout(i), PyNone),
                                            args.data, args.user_clearance,
                                            args.user_compartments)
               /\ \A e \in UnresolvedElements(args.data,
                               Segments[policy.field_redaction_rules[i].field_path]) :
                      (\A j \in FiringRules : \A b \in TargetsOf(j) : ~AtOrBelow(b, e))
                          => (Has(ret, e) /\ At(ret, e) = At(args.data, e))
        /\ (\A i \in FiringRules : Unresolved(i)) => ret = args.data

\* the first firing rule resolves nowhere in the payload, which has no key
\* ssn, and the second one has masked the e-mail all the same
C25_Witness ==
    /\ Redacted
    /\ FiringRules = {1, 2}
    /\ policy.field_redaction_rules[1].field_path = "user.ssn"
    /\ Unresolved(1)
    /\ policy.field_redaction_rules[2].field_path = "user.email"
    /\ "user" \in DOMAIN args.data.v
    /\ args.data.v["user"].t = "dict"
    /\ args.data.v["user"].v["email"] = PyStr("alice@agency.gov")
    /\ DOMAIN ret.v["user"].v = {"name", "email"}
    /\ ret.v["user"].v["email"] = PyStr("[REDACTED]")
    /\ ret.v["user"].v["name"] = PyStr("Alice Smith")

-----------------------------------------------------------------------------
(* C26 *)

\* the compartments in ascending order of their codes
CompartmentsAscending ==
    <<"HUMINT", "IMINT", "NOCONTRACT", "NOFORN", "RUFF", "SIGINT", "TALENT_KEYHOLE">>

\* C26: all_classifications lists the classifications of the entities that
\* carry one, in input order and with repetitions; all_portion_markings lists
\* the portion markings of the entities, each once, in ascending order;
\* all_compartments lists their compartments, each once, in ascending order of
\* code; computed_from_entity_count is the number of entities passed in.
C26_AggregateLists ==
    Aggregated =>
        LET Classified(e) == EntityLevel(e) # None
            classified == SelectSeq(args.entities, Classified)
            Marked(m) == \E i \in 1..Len(args.entities) :
                             m \in EntityMarkings(args.entities[i])
            Held(c) == \E i \in 1..Len(args.entities) :
                           c \in EntityCompartments(args.entities[i])
        IN  /\ ret.all_classifications
                   = [i \in 1..Len(classified) |-> EntityLevel(classified[i])]
            /\ ret.all_portion_markings = SelectSeq(MarkingsAscending, Marked)
            /\ ret.all_compartments = SelectSeq(CompartmentsAscending, Held)
            /\ ret.computed_from_entity_count = Len(args.entities)

\* three entities: the first and the third carry SECRET, the second carries
\* no classification but two markings, given as the keys of a map, and two
\* compartments
C26_Witness ==
    /\ Aggregated
    /\ Len(args.entities) = 3
    /\ EntityLevel(args.entities[1]) = "SECRET"
    /\ EntityLevel(args.entities[2]) = None
    /\ EntityLevel(args.entities[3]) = "SECRET"
    /\ ret.all_classifications = <<"SECRET", "SECRET">>
    /\ ret.all_portion_markings = <<"//NOCONTRACT", "//NOFORN">>
    /\ args.entities[2].v["portion_markings"].t = "dict"
    /\ ret.all_compartments = <<"NOFORN", "TALENT_KEYHOLE">>
    /\ ret.computed_from_entity_count = 3

-----------------------------------------------------------------------------
(* C27 *)

\* C27: a denied decision has no obligations, no highest classification and
\* no portion markings, and its reason is that of one of the five checks.
C27_DenialCarriesNothing ==
    (Decided /\ ~ret.allowed) =>
        /\ ret.obligations = <<>>
        /\ ret.highest_classification = None
        /\ ret.portion_markings = <<>>
        /\ ret.reason \in {"User account is suspended", "Session is not active",
                           "Need-to-know denied"}
               \/ StartsWith(ret.reason, "Insufficient clearance: ")
               \/ StartsWith(ret.reason, "Missing compartments: ")

\* a denial by the need-to-know check, the last one, for a call that would
\* have carried three obligations and a portion marking had it been allowed
C27_Witness ==
    /\ Decided
    /\ ~ret.allowed
    /\ ret.reason = "Need-to-know denied"
    /\ args.device_posture = "untrusted"
    /\ ~args.user_mfa_verified
    /\ args.resource_classification = "SECRET"
    /\ args.resource_compartments = <<"NOFORN">>
    /\ ret.obligations = <<>>
    /\ ret.highest_classification = None
    /\ ret.portion_markings = <<>>

-----------------------------------------------------------------------------
(* C28 *)

\* the calls that differ from the one made only in a clearance of at least
\* the same rank and in compartments and roles that include those given
StrongerSubjects ==
    {[args EXCEPT !.user_clearance = c, !.user_compartments = m, !.user_roles = r] :
        c \in {l \in ClassificationLevel : Rank[l] >= Rank[args.user_clearance]},
        m \in {n \in ListsUpTo(CompartmentPool, MaxComps) :
                  ToSet(args.user_compartments) \subseteq ToSet(n)},
        r \in {q \in RoleLists : ToSet(args.user_roles) \subseteq ToSet(q)}}

\* C28: when a call is allowed, so is every call for the same resource, the
\* same account, session, MFA and device state and a subject whose clearance
\* ranks at least as high and whose compartments and roles include those of
\* the first.
C28_AllowedIsMonotone ==
    (Decided /\ ret.allowed) =>
        \A stronger \in StrongerSubjects :
            make_access_decision(AccessControlEngine(policy, PyNone), stronger).allowed

\* an allowed call of a SECRET analyst without compartments on a SECRET
\* resource that requires the role analyst; the TS//SCI subject holding NOFORN
\* and the roles auditor and analyst is among the stronger ones
C28_Witness ==
    /\ Decided
    /\ ret.allowed
    /\ args.user_clearance = "SECRET"
    /\ args.resource_classification = "SECRET"
    /\ args.user_compartments = <<>>
    /\ args.user_roles = <<"analyst">>
    /\ args.resource_need_to_know_attrs.t = "dict"
    /\ DOMAIN args.resource_need_to_know_attrs.v = {"required_roles"}
    /\ args.resource_need_to_know_attrs.v["required_roles"].v = <<"analyst">>
    /\ [args EXCEPT !.user_clearance = "TS_SCI", !.user_compartments = <<"NOFORN">>,
                    !.user_roles = <<"auditor", "analyst">>] \in StrongerSubjects
    /\ Cardinality(StrongerSubjects) > 1

-----------------------------------------------------------------------------
(* C29 *)

\* C29: apply_redaction called on the payload it has returned, for the same
\* subject and policy, returns a payload equal to it.
C29_RedactionIdempotent ==
    Redacted =>
        apply_redaction(AccessControlEngine(policy, PyNone), ret,
                        args.user_clearance, args.user_compartments) = ret

\* two rules have fired on one payload, the second replacing the map the
\* first has masked a leaf of, and the result is not the payload passed in
C29_Witness ==
    /\ Redacted
    /\ FiringRules = {1, 2}
    /\ policy.field_redaction_rules[1].field_path = "user.email"
    /\ policy.field_redaction_rules[2].field_path = "user"
    /\ TargetsOf(1) # {}
    /\ ret.v["user"].t = "str"
    /\ ret.v["user"].v = "#####"
    /\ apply_redaction(AccessControlEngine(policy, PyNone), ret,
                       args.user_clearance, args.user_compartments) = ret

-----------------------------------------------------------------------------
(* C30 *)

\* the last segment of the path of rule i is a list wildcard
EndsInWildcard(i) ==
    LET segs == Segments[policy.field_redaction_rules[i].field_path]
    IN  segs[Len(segs)].wild

\* compute_obligations has returned
ObligationsComputed == op = "compute_obligations" /\ pc = "done"

\* C30: a firing rule whose path ends in a wildcard segment has no effect on
\* the payload: the result is the one the policy without the rule gives, and
\* it is the payload passed in when no other rule fires; compute_obligations
\* returns a MASK_FIELD obligation for the path of the rule all the same.
C30_TrailingWildcardChangesNothing ==
    /\ Redacted =>
           \A i \in FiringRules :
               EndsInWildcard(i) =>
                   /\ ret = apply_redaction(AccessControlEngine(PolicyWithout(i), PyNone),
                                            args.data, args.user_clearance,
                                            args.user_compartments)
                   /\ (\A j \in FiringRules : EndsInWildcard(j)) => ret = args.data
    /\ ObligationsComputed =>
           \A i \in FiringRules :
               EndsInWildcard(i) =>
                   \E k \in 1..Len(ret) :
                       /\ ret[k].obligation_type = "MASK_FIELD"
                       /\ ret[k].resource_field = PyStr(policy.field_redaction_rules[i].field_path)
                       /\ ret[k].redaction_strategy = policy.field_redaction_rules[i].strategy

\* the rule on tags[*] is the only rule and fires on a payload whose tags are
\* a list of two strings: both are returned as they were
C30_Witness ==
    /\ Redacted
    /\ Len(policy.field_redaction_rules) = 1
    /\ FiringRules = {1}
    /\ policy.field_redaction_rules[1].field_path = "tags[*]"
    /\ "tags" \in DOMAIN args.data.v
    /\ args.data.v["tags"].t = "list"
    /\ Len(args.data.v["tags"].v) = 2
    /\ ret.v["tags"] = PyList(<<PyStr("red"), PyStr("blue")>>)

====
